---------------------------- MODULE Spec2Model ----------------------------
(***************************************************************************)
(* AirCanvas: gesture classification (GestureDetector), stroke capture     *)
(* (DrawingCanvas) and the frame handlers of the application (AirCanvas).  *)
(*                                                                         *)
(* Numbers.  The program computes with IEEE doubles.  Here a 2D point is a *)
(* pair of rationals with a common denominator, [x, y, d] standing for     *)
(* (x/d, y/d), kept in lowest terms, so sums and means are exact.  A       *)
(* distance is floor(100 * sqrt(dx^2 + dy^2)), the length in hundredths of *)
(* a pixel: comparing it with a whole number of pixels gives exactly the   *)
(* answer of the comparison of the real distance, and a sum of n distances *)
(* is below the real arc length by less than n/100 pixel.                  *)
(***************************************************************************)
EXTENDS Integers, Sequences, FiniteSets, TLC

\* ------------------------------------------------------------------ null
\* JavaScript's null, for fields typed `T | null`.
NULL == [null |-> TRUE]

\* ------------------------------------------------------------ arithmetic
Abs(n) == IF n < 0 THEN -n ELSE n

RECURSIVE Gcd(_, _)
Gcd(a, b) == IF b = 0 THEN a ELSE Gcd(b, a % b)

\* The point (x/d, y/d) in lowest terms.
Pt(x, y, d) ==
    LET g == Gcd(Gcd(Abs(x), Abs(y)), d)
    IN  [x |-> x \div g, y |-> y \div g, d |-> d \div g]

\* A raw pixel position.
Px(x, y) == [x |-> x, y |-> y, d |-> 1]

PtAdd(p, q) == Pt(p.x * q.d + q.x * p.d, p.y * q.d + q.y * p.d, p.d * q.d)

PtDivN(p, n) == Pt(p.x, p.y, p.d * n)

RECURSIVE PtSum(_)
PtSum(s) == IF s = << >> THEN Px(0, 0) ELSE PtAdd(Head(s), PtSum(Tail(s)))

\* Largest r in lo..hi with r*r <= n.
RECURSIVE ISqrtIn(_, _, _)
ISqrtIn(n, lo, hi) ==
    IF lo >= hi THEN lo
    ELSE LET mid == (lo + hi + 1) \div 2
         IN  IF mid * mid <= n THEN ISqrtIn(n, mid, hi) ELSE ISqrtIn(n, lo, mid - 1)

\* 46340 is the largest integer whose square fits TLC's 32-bit integers.
ISqrt(n) == ISqrtIn(n, 0, 46340)

\* Hundredths of a pixel per pixel.
DistUnit == 100

\* Largest f in lo..hi with (r*DistUnit + f)^2 <= DistUnit^2 * n, r = ISqrt(n).
RECURSIVE FracIn(_, _, _, _)
FracIn(rest, r, lo, hi) ==
    IF lo >= hi THEN lo
    ELSE LET mid == (lo + hi + 1) \div 2
         IN  IF 2 * r * DistUnit * mid + mid * mid <= DistUnit * DistUnit * rest
             THEN FracIn(rest, r, mid, hi)
             ELSE FracIn(rest, r, lo, mid - 1)

\* floor(DistUnit * sqrt(n))
SqrtScaled(n) ==
    LET r == ISqrt(n)
    IN  r * DistUnit + FracIn(n - r * r, r, 0, DistUnit - 1)

\* Math.sqrt(dx*dx + dy*dy) and Math.hypot(dx, dy), in hundredths of a pixel.
distance(p1, p2) ==
    LET dx == p1.x * p2.d - p2.x * p1.d
        dy == p1.y * p2.d - p2.y * p1.d
    IN  SqrtScaled(dx * dx + dy * dy) \div (p1.d * p2.d)

\* --------------------------------------------------------------- constants
\* constants.ts
LANDMARKS ==
    [WRIST |-> 0, THUMB_TIP |-> 4,
     INDEX_MCP |-> 5, INDEX_PIP |-> 6, INDEX_TIP |-> 8,
     MIDDLE_PIP |-> 10, MIDDLE_TIP |-> 12,
     RING_PIP |-> 14, RING_TIP |-> 16,
     PINKY_MCP |-> 17, PINKY_PIP |-> 18, PINKY_TIP |-> 20]

\* Lengths in pixels, times in milliseconds.
GESTURE ==
    [PINCH_THRESHOLD |-> 40, PALM_HOLD_TIME |-> 500, FIST_HOLD_TIME |-> 1000,
     SWIPE_VELOCITY |-> 800, MIN_STROKE_LENGTH |-> 50]

STROKE == [WIDTH |-> 10, MIN_POINT_DISTANCE |-> 8]

\* Lengths and speeds in thousandths of a world unit (0.1, 0.02, 1.5 and
\* 1.2 in constants.ts).
SCENE ==
    [MAX_OBJECTS |-> 10, BOB_AMPLITUDE |-> 100, DRIFT_SPEED |-> 20,
     COLLISION_RADIUS |-> 1500, INFLATION_AMOUNT |-> 1200]

\* drawingCanvas.ts
JITTER_THRESHOLD == 3

\* The capacity of the smoothing buffer (recentPoints).
SMOOTH_WINDOW == 10

Last(s) == s[Len(s)]

\* F(v), with v computed once however often F reads it: a local constant
\* of a handler.
Bind(v, F(_)) == CHOOSE y \in { F(x) : x \in { v } } : TRUE


\* --------------------------------------------------------- DrawingCanvas
\* The fields of a DrawingCanvas after construction.
DrawingCanvasNew ==
    [currentStroke    |-> NULL,
     completedStrokes |-> << >>,
     livePosition     |-> NULL,
     filteredPosition |-> NULL,
     recentPoints     |-> << >>]

startStroke(dc, point, color) ==
    [dc EXCEPT !.currentStroke    = [points |-> << point >>, color |-> color,
                                     width |-> STROKE.WIDTH, closed |-> FALSE],
               !.livePosition     = point,
               !.filteredPosition = point,
               !.recentPoints     = << point >>]

\* applyJitterFilter returning the raw point for a movement below the
\* threshold instead of the last accepted position.
applyJitterFilter_PassThrough(dc, point) ==
    IF dc.filteredPosition = NULL
    THEN [out |-> point, filteredPosition |-> point]
    ELSE IF distance(point, dc.filteredPosition) < JITTER_THRESHOLD * DistUnit
         THEN [out |-> point, filteredPosition |-> dc.filteredPosition]
         ELSE [out |-> point, filteredPosition |-> point]

\* applyJitterFilter ignoring a movement of exactly the threshold too.
applyJitterFilter_Strict(dc, point) ==
    IF dc.filteredPosition = NULL
    THEN [out |-> point, filteredPosition |-> point]
    ELSE IF distance(point, dc.filteredPosition) <= JITTER_THRESHOLD * DistUnit
         THEN [out |-> dc.filteredPosition, filteredPosition |-> dc.filteredPosition]
         ELSE [out |-> point, filteredPosition |-> point]

\* The filter's result: the value returned (out) and the field it leaves.
applyJitterFilter(dc, point) ==
    IF dc.filteredPosition = NULL
    THEN [out |-> point, filteredPosition |-> point]
    ELSE IF distance(point, dc.filteredPosition) < JITTER_THRESHOLD * DistUnit
         THEN [out |-> dc.filteredPosition, filteredPosition |-> dc.filteredPosition]
         ELSE [out |-> point, filteredPosition |-> point]

\* pushRecent evicting the newest entry (pop) instead of the oldest (shift).
pushRecent_Pop(recentPoints, filtered) ==
    LET pushed == Append(recentPoints, filtered)
    IN  IF Len(pushed) > SMOOTH_WINDOW THEN SubSeq(pushed, 1, Len(pushed) - 1)
        ELSE pushed

\* recentPoints.push(filtered); if (length > 10) shift()
pushRecent(recentPoints, filtered) ==
    LET pushed == Append(recentPoints, filtered)
    IN  IF Len(pushed) > SMOOTH_WINDOW THEN Tail(pushed) ELSE pushed

getSmoothedPosition(recentPoints) ==
    IF Len(recentPoints) = 0 THEN Px(0, 0)
    ELSE PtDivN(PtSum(recentPoints), Len(recentPoints))

\* addPoint without the spacing gate: every smoothed point is appended.
addPoint_NoGate(dc, point) ==
    IF dc.currentStroke = NULL THEN dc
    ELSE LET f        == applyJitterFilter(dc, point)
             recent   == pushRecent(dc.recentPoints, f.out)
             smoothed == getSmoothedPosition(recent)
         IN  [dc EXCEPT !.filteredPosition = f.filteredPosition,
                        !.recentPoints     = recent,
                        !.livePosition     = smoothed,
                        !.currentStroke.points = Append(@, smoothed)]

addPoint(dc, point) ==
    IF dc.currentStroke = NULL THEN dc
    ELSE LET f        == applyJitterFilter(dc, point)
             recent   == pushRecent(dc.recentPoints, f.out)
             smoothed == getSmoothedPosition(recent)
             pts      == dc.currentStroke.points
             dist     == distance(smoothed, Last(pts))
         IN  [dc EXCEPT !.filteredPosition = f.filteredPosition,
                        !.recentPoints     = recent,
                        !.livePosition     = smoothed,
                        !.currentStroke.points =
                            IF dist >= STROKE.MIN_POINT_DISTANCE * DistUnit
                            THEN Append(pts, smoothed) ELSE pts]

updateLivePosition(dc, point) ==
    LET f      == applyJitterFilter(dc, point)
        recent == pushRecent(dc.recentPoints, f.out)
    IN  [dc EXCEPT !.filteredPosition = f.filteredPosition,
                   !.recentPoints     = recent,
                   !.livePosition     = getSmoothedPosition(recent)]

clearLivePosition(dc) ==
    [dc EXCEPT !.livePosition = NULL, !.filteredPosition = NULL,
               !.recentPoints = << >>]

\* The stroke remains; nothing is changed.
pauseStroke(dc) == dc

discardStroke(dc) == [dc EXCEPT !.currentStroke = NULL]

RECURSIVE PathLength(_)
PathLength(pts) ==
    IF Len(pts) < 2 THEN 0
    ELSE distance(pts[1], pts[2]) + PathLength(Tail(pts))

calculateStrokeLength(dc) ==
    IF dc.currentStroke = NULL \/ Len(dc.currentStroke.points) < 2 THEN 0
    ELSE PathLength(dc.currentStroke.points)

\* closeStroke without the check of the stroke's length.
closeStroke_NoLengthCheck(dc) ==
    IF dc.currentStroke = NULL THEN [dc |-> dc, stroke |-> NULL]
    ELSE IF Len(dc.currentStroke.points) > 2
         THEN LET closedStroke == [dc.currentStroke EXCEPT !.closed = TRUE]
              IN  [dc |-> [dc EXCEPT !.completedStrokes = Append(@, closedStroke),
                                     !.currentStroke = NULL],
                   stroke |-> closedStroke]
         ELSE [dc |-> discardStroke(dc), stroke |-> NULL]

\* The canvas closeStroke leaves (dc) and the value it returns (stroke).
closeStroke(dc) ==
    IF dc.currentStroke = NULL THEN [dc |-> dc, stroke |-> NULL]
    ELSE IF calculateStrokeLength(dc) < GESTURE.MIN_STROKE_LENGTH * DistUnit
         THEN [dc |-> discardStroke(dc), stroke |-> NULL]
         ELSE IF Len(dc.currentStroke.points) > 2
              THEN LET closedStroke == [dc.currentStroke EXCEPT !.closed = TRUE]
                   IN  [dc |-> [dc EXCEPT !.completedStrokes = Append(@, closedStroke),
                                          !.currentStroke = NULL],
                        stroke |-> closedStroke]
              ELSE [dc |-> discardStroke(dc), stroke |-> NULL]

DrawingCanvas_clearAll(dc) ==
    [dc EXCEPT !.currentStroke = NULL, !.completedStrokes = << >>]

\* completedStrokes without its first occurrence of stroke, if any.
RECURSIVE removeCompletedStroke(_, _)
removeCompletedStroke(completedStrokes, stroke) ==
    IF completedStrokes = << >> THEN << >>
    ELSE IF Head(completedStrokes) = stroke THEN Tail(completedStrokes)
         ELSE << Head(completedStrokes) >>
                  \o removeCompletedStroke(Tail(completedStrokes), stroke)


\* ------------------------------------------------------- GestureDetector
\* A HandLandmarks value is [landmarks |-> a function from the 21 landmark
\* indices to points]; worldLandmarks and handedness are read by nothing.

\* The pinch distance the classifier compares with, in pixels.
PINCH_APPLIED == 60

\* The fields of a GestureDetector after construction.
GestureDetectorNew ==
    [lastLandmarks    |-> NULL,
     lastTime         |-> 0,
     gestureStartTime |-> 0,
     currentGesture   |-> "none",
     previousGesture  |-> "none"]

Zero2 == Px(0, 0)

createState(gd, gesture, velocity, duration) ==
    [current |-> gesture, previous |-> gd.previousGesture, duration |-> duration,
     velocity |-> velocity, confidence |-> 1]

getPalmCenter(landmarks) ==
    PtDivN(PtSum(<< landmarks.landmarks[LANDMARKS.WRIST], landmarks.landmarks[LANDMARKS.INDEX_MCP],
                    landmarks.landmarks[LANDMARKS.PINKY_MCP] >>), 3)

\* dt is in milliseconds here and the velocity in pixels per second.
calculateVelocity(gd, landmarks, dt) ==
    IF gd.lastLandmarks = NULL \/ dt = 0 THEN Zero2
    ELSE LET currentPalm == getPalmCenter(landmarks)
             lastPalm    == getPalmCenter(gd.lastLandmarks)
             diff        == PtAdd(currentPalm, Pt(-lastPalm.x, -lastPalm.y, lastPalm.d))
         IN  Pt(diff.x * 1000, diff.y * 1000, diff.d * dt)

\* isFingerExtended counting a tip level with its joint as extended.
isFingerExtended_Inclusive(landmarks, tipIdx, pipIdx) ==
    landmarks.landmarks[tipIdx].y <= landmarks.landmarks[pipIdx].y

isFingerExtended(landmarks, tipIdx, pipIdx) ==
    landmarks.landmarks[tipIdx].y < landmarks.landmarks[pipIdx].y

isPointingIndex(landmarks) ==
    LET indexOpen    == isFingerExtended(landmarks, LANDMARKS.INDEX_TIP, LANDMARKS.INDEX_PIP)
        middleClosed == ~isFingerExtended(landmarks, LANDMARKS.MIDDLE_TIP, LANDMARKS.MIDDLE_PIP)
        ringClosed   == ~isFingerExtended(landmarks, LANDMARKS.RING_TIP, LANDMARKS.RING_PIP)
        pinkyClosed  == ~isFingerExtended(landmarks, LANDMARKS.PINKY_TIP, LANDMARKS.PINKY_PIP)
    IN  indexOpen /\ middleClosed /\ ringClosed /\ pinkyClosed

isOpenPalm(landmarks) ==
    /\ isFingerExtended(landmarks, LANDMARKS.INDEX_TIP, LANDMARKS.INDEX_PIP)
    /\ isFingerExtended(landmarks, LANDMARKS.MIDDLE_TIP, LANDMARKS.MIDDLE_PIP)
    /\ isFingerExtended(landmarks, LANDMARKS.RING_TIP, LANDMARKS.RING_PIP)
    /\ isFingerExtended(landmarks, LANDMARKS.PINKY_TIP, LANDMARKS.PINKY_PIP)

isFist(landmarks) ==
    /\ ~isFingerExtended(landmarks, LANDMARKS.INDEX_TIP, LANDMARKS.INDEX_PIP)
    /\ ~isFingerExtended(landmarks, LANDMARKS.MIDDLE_TIP, LANDMARKS.MIDDLE_PIP)
    /\ ~isFingerExtended(landmarks, LANDMARKS.RING_TIP, LANDMARKS.RING_PIP)
    /\ ~isFingerExtended(landmarks, LANDMARKS.PINKY_TIP, LANDMARKS.PINKY_PIP)

\* detectGestureType testing the pointing index before the pinch.
detectGestureType_DrawFirst(landmarks, velocity) ==
    IF isPointingIndex(landmarks) THEN "draw"
    ELSE IF distance(landmarks.landmarks[LANDMARKS.THUMB_TIP], landmarks.landmarks[LANDMARKS.INDEX_TIP])
                < PINCH_APPLIED * DistUnit THEN "pinch"
    ELSE IF isOpenPalm(landmarks) THEN "palm"
    ELSE IF isFist(landmarks) THEN "fist"
    ELSE "none"

\* The velocity is passed and not read.
detectGestureType(landmarks, velocity) ==
    LET pinchDistance == distance(landmarks.landmarks[LANDMARKS.THUMB_TIP],
                                  landmarks.landmarks[LANDMARKS.INDEX_TIP])
    IN  IF pinchDistance < PINCH_APPLIED * DistUnit THEN "pinch"
        ELSE IF isPointingIndex(landmarks) THEN "draw"
        ELSE IF isOpenPalm(landmarks) THEN "palm"
        ELSE IF isFist(landmarks) THEN "fist"
        ELSE "none"

\* detect keeping gestureStartTime when the kind changes.
detect_KeepStart(gd, landmarks, t) ==
    LET dt == IF gd.lastTime > 0 THEN t - gd.lastTime ELSE 0
        g1 == [gd EXCEPT !.lastTime = t]
    IN  IF landmarks = NULL
        THEN [gd |-> g1, state |-> createState(g1, "none", Zero2, 0)]
        ELSE Bind(calculateVelocity(g1, landmarks, dt), LAMBDA velocity :
             Bind(detectGestureType(landmarks, velocity), LAMBDA detectedGesture :
             LET g2 == IF detectedGesture # g1.currentGesture
                       THEN [g1 EXCEPT !.previousGesture = g1.currentGesture,
                                       !.currentGesture  = detectedGesture]
                       ELSE g1
                 g3 == [g2 EXCEPT !.lastLandmarks = landmarks]
             IN  [gd |-> g3,
                  state |-> createState(g3, g3.currentGesture, velocity,
                                        t - g2.gestureStartTime)]))

\* detect restarting gestureStartTime on every frame with a hand.
detect_AlwaysRestart(gd, landmarks, t) ==
    LET dt == IF gd.lastTime > 0 THEN t - gd.lastTime ELSE 0
        g1 == [gd EXCEPT !.lastTime = t]
    IN  IF landmarks = NULL
        THEN [gd |-> g1, state |-> createState(g1, "none", Zero2, 0)]
        ELSE Bind(calculateVelocity(g1, landmarks, dt), LAMBDA velocity :
             Bind(detectGestureType(landmarks, velocity), LAMBDA detectedGesture :
             LET g2 == [g1 EXCEPT !.previousGesture =
                                      IF detectedGesture # g1.currentGesture
                                      THEN g1.currentGesture ELSE @,
                                  !.currentGesture   = detectedGesture,
                                  !.gestureStartTime = t]
                 g3 == [g2 EXCEPT !.lastLandmarks = landmarks]
             IN  [gd |-> g3,
                  state |-> createState(g3, g3.currentGesture, velocity, 0)]))

\* detect(landmarks) called at time t (performance.now(), in milliseconds):
\* the detector it leaves (gd) and the GestureState it returns (state).
detect(gd, landmarks, t) ==
    LET dt == IF gd.lastTime > 0 THEN t - gd.lastTime ELSE 0
        g1 == [gd EXCEPT !.lastTime = t]
    IN  IF landmarks = NULL
        THEN [gd |-> g1, state |-> createState(g1, "none", Zero2, 0)]
        ELSE Bind(calculateVelocity(g1, landmarks, dt), LAMBDA velocity :
             Bind(detectGestureType(landmarks, velocity), LAMBDA detectedGesture :
             LET g2 == IF detectedGesture # g1.currentGesture
                       THEN [g1 EXCEPT !.previousGesture  = g1.currentGesture,
                                       !.currentGesture   = detectedGesture,
                                       !.gestureStartTime = t]
                       ELSE g1
                 duration == t - g2.gestureStartTime
                 g3 == [g2 EXCEPT !.lastLandmarks = landmarks]
                 st == createState(g3, g3.currentGesture, velocity, duration)
             IN  [gd |-> g3,
                  state |-> [current |-> st.current, previous |-> st.previous,
                             duration |-> st.duration, velocity |-> st.velocity,
                             confidence |-> st.confidence,
                             pinchDistance |->
                                 distance(landmarks.landmarks[LANDMARKS.THUMB_TIP],
                                          landmarks.landmarks[LANDMARKS.INDEX_TIP])]]))

getIndexTip(landmarks) == landmarks.landmarks[LANDMARKS.INDEX_TIP]

getPinchCenter(landmarks) ==
    PtDivN(PtAdd(landmarks.landmarks[LANDMARKS.THUMB_TIP], landmarks.landmarks[LANDMARKS.INDEX_TIP]), 2)

\* --------------------------------------------------------- ObjectManager
\* A BalloonObject is [id, originalStroke, color, position, basePosition,
\* isGrabbed]: position is where its mesh stands (mesh.position), given as
\* the screen position that screenToWorld maps to it, and basePosition is
\* its field `position`, where it was created or last dragged to.
\* The ObjectManager is [objects, idCounter,
\* meshes, removing, clearing]: the active objects in array order, the id
\* counter, the ids of the objects whose meshes are in the scene (added by
\* scene.add, and not yet removed and disposed), the ids of the removed
\* objects whose removal animation runs, and the clearAll calls that have not
\* returned yet, each [n, next, awaiting]: the number of delayed calls it
\* scheduled, how many of them have run, and the ids of the removals it
\* awaits.  Another object's field holding a reference to
\* a BalloonObject holds [id |-> its id].

ObjectManagerNew ==
    [objects |-> << >>, idCounter |-> 0, meshes |-> {}, removing |-> {},
     clearing |-> << >>]

Ref(obj) == [id |-> obj.id]

\* The position whose coordinates are NaN (0 / 0): no comparison with it holds.
NaNPoint == [x |-> 0, y |-> 0, d |-> 0]

\* Half the width, in pixels, of the square of the screen on which a ray
\* meets the mesh of an object standing at its centre.
HIT_RADIUS == 20

\* Scene3D.raycastObjects meeting the mesh of obj at a screen position.
RayHits(obj, pos) ==
    /\ obj.position # NaNPoint
    /\ Abs(pos.x * obj.position.d - obj.position.x * pos.d)
           <= HIT_RADIUS * pos.d * obj.position.d
    /\ Abs(pos.y * obj.position.d - obj.position.y * pos.d)
           <= HIT_RADIUS * pos.d * obj.position.d

\* The first object of the array whose mesh the ray meets, or NULL.
getObjectAtPosition(om, pos) ==
    LET hits == { i \in DOMAIN om.objects : RayHits(om.objects[i], pos) }
    IN  IF hits = {} THEN NULL
        ELSE om.objects[CHOOSE i \in hits : \A j \in hits : i <= j]

\* The index of the object a reference names, 0 when it is not active.
indexOf(om, ref) ==
    LET at == { i \in DOMAIN om.objects : om.objects[i].id = ref.id }
    IN  IF at = {} THEN 0 ELSE CHOOSE i \in at : TRUE

getStrokeCenter(points) ==
    IF Len(points) = 0 THEN NaNPoint ELSE PtDivN(PtSum(points), Len(points))

\* The part of createFromStroke that runs before its first await: the mesh
\* is placed at the centre of the stroke and the object joins the array.
createFromStroke(om, stroke) ==
    LET balloonObject ==
            [id |-> om.idCounter, originalStroke |-> stroke, color |-> stroke.color,
             position |-> getStrokeCenter(stroke.points),
             basePosition |-> getStrokeCenter(stroke.points),
             targetPosition |-> getStrokeCenter(stroke.points), isGrabbed |-> FALSE]
    IN  [om EXCEPT !.idCounter = @ + 1, !.objects = Append(@, balloonObject),
                   !.meshes = @ \cup { balloonObject.id }]

\* Tweens of squishAmount and of the mesh rotation only.
pokeObject(om, ref) == om

grabObject(om, ref) ==
    LET i == indexOf(om, ref)
    IN  IF i = 0 THEN om ELSE [om EXCEPT !.objects[i].isGrabbed = TRUE]

\* gsap.killTweensOf(obj.mesh.scale) of grabObject, on the pending
\* inflations (each [id, stroke, local, phase]): a tween that is killed
\* never calls its onComplete.
killTweensOfScale(inflating, ref) ==
    [k \in DOMAIN inflating |->
        IF inflating[k].id = ref.id /\ inflating[k].phase = "tween"
        THEN [inflating[k] EXCEPT !.phase = "killed"]
        ELSE inflating[k]]

moveGrabbedObject(om, ref, screenPos) ==
    LET i == indexOf(om, ref)
    IN  IF i = 0 \/ ~om.objects[i].isGrabbed THEN om
        ELSE [om EXCEPT !.objects[i].position = screenPos,
                        !.objects[i].basePosition = screenPos]

\* The mesh rotation only.
rotateObject(om, ref, deltaX, deltaY) == om

\* removeObject leaving the object in the array while its animation runs.
removeObject_NoSplice(om, ref) ==
    LET i == indexOf(om, ref)
    IN  IF i = 0 THEN om
        ELSE [om EXCEPT !.removing = @ \cup { ref.id }]

\* The synchronous part of removeObject: the splice.  The mesh leaves the
\* scene when the removal animation completes (removeObjectDone).
removeObject(om, ref) ==
    LET i == indexOf(om, ref)
    IN  IF i = 0 THEN om
        ELSE [om EXCEPT !.objects = SubSeq(@, 1, i - 1) \o SubSeq(@, i + 1, Len(@)),
                        !.removing = @ \cup { ref.id }]

\* onComplete of the removal animation: scene.remove(mesh) and disposal.
\* It also resolves the promise a clearAll call awaits.
removeObjectDone(om, id) ==
    [om EXCEPT !.removing = @ \ { id },
               !.meshes = @ \ { id },
               !.clearing = [j \in DOMAIN @ |->
                                [@[j] EXCEPT !.awaiting = @ \ { id }]]]

\* ObjectManager.clearAll up to its await: one delayed call per object of
\* the array as it is now.  With no object there is nothing to await and
\* the array is emptied at once.
ObjectManager_clearAll(om) ==
    IF om.objects = << >> THEN om
    ELSE [om EXCEPT !.clearing =
              Append(@, [n |-> Len(om.objects), next |-> 0, awaiting |-> {}])]

\* The next delayed call of the j-th pending clearAll: it removes the object
\* now standing at its index, when there is one.
clearAllDelayedCall(om, j) ==
    LET i   == om.clearing[j].next
        om1 == [om EXCEPT !.clearing[j].next = i + 1]
    IN  IF i + 1 <= Len(om.objects)
        THEN LET obj == om.objects[i + 1]
             IN  [removeObject(om1, Ref(obj))
                      EXCEPT !.clearing[j].awaiting = @ \cup { obj.id }]
        ELSE om1

\* The continuation of the j-th pending clearAll after Promise.all.
clearAllResolved(om, j) ==
    [om EXCEPT !.objects = << >>,
               !.clearing = SubSeq(@, 1, j - 1) \o SubSeq(@, j + 1, Len(@))]

\* ------------------------------------------- ObjectManager: the animation
\* Every mesh is created on the plane z = 0 (BalloonInflator.screenToWorld),
\* is moved on it by moveGrabbedObject, and is pushed along differences of
\* positions, so it stays on it; and screenToWorld is a bijection between
\* the screen and that plane.  A world position is therefore given, as in
\* `position`, by the screen position it is seen at, and world lengths by
\* their length on the screen: PX_PER_UNIT pixels to the world unit (a window
\* 933 pixels high, seen by the camera of SCENE at z = 10 with a field of
\* view of 50 degrees).  The y axis of the screen points down, that of the
\* world up.
\*
\* An object that update moves has, besides [id, position, isGrabbed], the
\* fields update reads and writes: targetPosition; rotation and
\* rotationSpeed, [x, y, z] in units of 1/10000 radian (per second);
\* bobOffset, in quarter turns; bobSpeed, in fifths of a radian per second;
\* scale and squishAmount, in thousandths; meshScale, [x, y, z] in
\* thousandths.  update computes in hundredths of a pixel and rounds away
\* from zero, so that what is not zero in the program is not zero here.
PX_PER_UNIT == 100

\* A length given in thousandths of a world unit, in hundredths of a pixel.
WorldLength(thousandths) == (thousandths * PX_PER_UNIT * DistUnit) \div 1000

\* n / d rounded away from zero (d > 0).
RoundOut(n, d) ==
    IF n >= 0 THEN (n + d - 1) \div d ELSE -((d - 1 - n) \div d)

\* The coordinates of a position in hundredths of a pixel.
Hx(p) == (p.x * DistUnit) \div p.d
Hy(p) == (p.y * DistUnit) \div p.d

\* The position dx, dy hundredths of a pixel from p.
Moved(p, dx, dy) == Pt(Hx(p) + dx, Hy(p) + dy, DistUnit)

\* Math.sin of a whole number of quarter turns.
QuarterSin(n) == CASE n % 4 = 1 -> 1 [] n % 4 = 3 -> -1 [] OTHER -> 0

\* The time update is given as elapsedTime is `elapsed` times 5 pi / 2
\* seconds: then elapsedTime * 0.2 is `elapsed` quarter turns, and
\* elapsedTime * bobSpeed is elapsed * bobSpeed quarter turns for a bobSpeed
\* that is a whole number of fifths.
bobAngle(obj, elapsed)   == elapsed * obj.bobSpeed + obj.bobOffset
driftAngle(obj, elapsed) == elapsed + obj.bobOffset

\* The rotation, the bobbing and the drift of update for one object;
\* deltaTime is in milliseconds.
bobAndDrift(obj, deltaTime, elapsed) ==
    LET bobAmount == QuarterSin(bobAngle(obj, elapsed)) * WorldLength(SCENE.BOB_AMPLITUDE)
        drift     == RoundOut(QuarterSin(driftAngle(obj, elapsed))
                                  * WorldLength(SCENE.DRIFT_SPEED) * deltaTime, 1000)
    IN  [obj EXCEPT
            !.rotation = [x |-> @.x + RoundOut(obj.rotationSpeed.x * deltaTime, 1000),
                          y |-> @.y + RoundOut(obj.rotationSpeed.y * deltaTime, 1000),
                          z |-> @.z + RoundOut(obj.rotationSpeed.z * deltaTime, 1000)],
            !.position = Pt(Hx(obj.position) + drift,
                            Hy(obj.targetPosition) - bobAmount, DistUnit)]

\* pushFrom with a grabbed object pushing nothing.
pushFrom_SkipGrabbed(obj, other, deltaTime) ==
    IF other.isGrabbed THEN obj
    ELSE LET dx == Hx(obj.position) - Hx(other.position)
             dy == Hy(obj.position) - Hy(other.position)
             R  == WorldLength(SCENE.COLLISION_RADIUS)
         IN  IF Abs(dx) >= R \/ Abs(dy) >= R THEN obj
             ELSE IF dx * dx + dy * dy < R * R
                       /\ dx * dx + dy * dy > WorldLength(1) * WorldLength(1)
             THEN LET dist      == ISqrt(dx * dx + dy * dy)
                      pushForce == RoundOut((R - dist) * WorldLength(deltaTime * 2), R)
                      px        == RoundOut(dx * pushForce, dist)
                      py        == RoundOut(dy * pushForce, dist)
                  IN  [obj EXCEPT
                          !.position = Moved(@, px, py),
                          !.targetPosition = Moved(@, RoundOut(px, 2), RoundOut(py, 2))]
             ELSE obj

\* The body of the loop of softCollisionAvoidance for one other object:
\* dist < COLLISION_RADIUS and dist > 0.001 are decided on the squares, and
\* pushForce, a fraction times seconds times 2, is that fraction of
\* 2 * deltaTime thousandths of a world unit.
pushFrom(obj, other, deltaTime) ==
    LET dx == Hx(obj.position) - Hx(other.position)
        dy == Hy(obj.position) - Hy(other.position)
        R  == WorldLength(SCENE.COLLISION_RADIUS)
    IN  IF Abs(dx) >= R \/ Abs(dy) >= R THEN obj
        ELSE IF dx * dx + dy * dy < R * R
                  /\ dx * dx + dy * dy > WorldLength(1) * WorldLength(1)
        THEN LET dist      == ISqrt(dx * dx + dy * dy)
                 pushForce == RoundOut((R - dist) * WorldLength(deltaTime * 2), R)
                 px        == RoundOut(dx * pushForce, dist)
                 py        == RoundOut(dy * pushForce, dist)
             IN  [obj EXCEPT
                     !.position = Moved(@, px, py),
                     !.targetPosition = Moved(@, RoundOut(px, 2), RoundOut(py, 2))]
        ELSE obj

\* softCollisionAvoidance(obj, deltaTime) from the j-th object of the array
\* on: obj is pushed by each other object in turn, from where the pushes
\* before have left it.
RECURSIVE softCollisionAvoidance(_, _, _, _)
softCollisionAvoidance(objects, obj, deltaTime, j) ==
    IF j > Len(objects) THEN obj
    ELSE IF objects[j].id = obj.id
    THEN softCollisionAvoidance(objects, obj, deltaTime, j + 1)
    ELSE Bind(pushFrom(obj, objects[j], deltaTime), LAMBDA pushed :
             softCollisionAvoidance(objects, pushed, deltaTime, j + 1))

\* The squish of update.
applySquish(obj) ==
    IF obj.squishAmount > 0
    THEN LET squish == 1000 - RoundOut(obj.squishAmount * 3, 10)
             expand == 1000 + RoundOut(obj.squishAmount * 15, 100)
         IN  [obj EXCEPT !.meshScale = [x |-> RoundOut(obj.scale * expand, 1000),
                                        y |-> RoundOut(obj.scale * squish, 1000),
                                        z |-> RoundOut(obj.scale * expand, 1000)]]
    ELSE obj

\* The loop of update from the i-th object on: each object is updated in
\* place, so the objects after it are pushed from where it stands now.
RECURSIVE updateFrom(_, _, _, _)
updateFrom(objects, deltaTime, elapsed, i) ==
    IF i > Len(objects) THEN objects
    ELSE IF objects[i].isGrabbed
    THEN updateFrom(objects, deltaTime, elapsed, i + 1)
    ELSE Bind(bobAndDrift(objects[i], deltaTime, elapsed), LAMBDA moved :
         Bind(softCollisionAvoidance(objects, moved, deltaTime, 1), LAMBDA pushed :
             updateFrom([objects EXCEPT ![i] = applySquish(pushed)],
                        deltaTime, elapsed, i + 1)))

update(om, deltaTime, elapsed) ==
    [om EXCEPT !.objects = updateFrom(@, deltaTime, elapsed, 1)]

\* ------------------------------------------- ObjectManager: the placement
\* The centre of the screen, which screenToWorld maps to the origin of the
\* world, and the bounds findBalancedPosition keeps a target within, in
\* world units on each side of the origin.
ScreenCentre == Px(800, 466)
PLACE_BOUNDS == [x |-> 4, y |-> 3, z |-> 2]

Clamp(v, lo, hi) == IF v < lo THEN lo ELSE IF v > hi THEN hi ELSE v

\* Math.max(-4, Math.min(4, x)) and Math.max(-3, Math.min(3, y)) on a
\* position; every position has z = 0, which the bounds on z leave alone.
clampToBounds(p) ==
    IF p = NaNPoint THEN NaNPoint ELSE
    Pt(Clamp(Hx(p), Hx(ScreenCentre) - WorldLength(1000 * PLACE_BOUNDS.x),
                    Hx(ScreenCentre) + WorldLength(1000 * PLACE_BOUNDS.x)),
       Clamp(Hy(p), Hy(ScreenCentre) - WorldLength(1000 * PLACE_BOUNDS.y),
                    Hy(ScreenCentre) + WorldLength(1000 * PLACE_BOUNDS.y)),
       DistUnit)

\* The body of the loop of findBalancedPosition for one other object: a
\* push of half of (radius - dist) / radius world units along diff, which
\* diff.normalize() leaves the zero vector when dist is 0.
placePush(newPos, other) ==
    IF newPos = NaNPoint \/ other.basePosition = NaNPoint THEN newPos ELSE
    LET dx == Hx(newPos) - Hx(other.basePosition)
        dy == Hy(newPos) - Hy(other.basePosition)
        R  == WorldLength(SCENE.COLLISION_RADIUS)
    IN  IF Abs(dx) >= R \/ Abs(dy) >= R THEN newPos
        ELSE IF dx * dx + dy * dy < R * R /\ dx * dx + dy * dy > 0
        THEN LET dist      == ISqrt(dx * dx + dy * dy)
                 pushForce == RoundOut((R - dist) * WorldLength(500), R)
             IN  Moved(newPos, RoundOut(dx * pushForce, dist),
                               RoundOut(dy * pushForce, dist))
        ELSE newPos

\* The loop of findBalancedPosition from the j-th object of the array on.
RECURSIVE placeFrom(_, _, _, _)
placeFrom(objects, obj, newPos, j) ==
    IF j > Len(objects) THEN newPos
    ELSE IF objects[j].id = obj.id THEN placeFrom(objects, obj, newPos, j + 1)
    ELSE Bind(placePush(newPos, objects[j]), LAMBDA pushed :
             placeFrom(objects, obj, pushed, j + 1))

\* findBalancedPosition without the clamp.
findBalancedPosition_NoClamp(om, ref) ==
    LET i == indexOf(om, ref)
    IN  IF i = 0 THEN om
        ELSE [om EXCEPT !.objects[i].targetPosition =
                 placeFrom(om.objects, om.objects[i], om.objects[i].basePosition, 1)]

\* findBalancedPosition(obj): the new target.  The tween it starts takes the
\* mesh there between frames, outside this call.
findBalancedPosition(om, ref) ==
    LET i == indexOf(om, ref)
    IN  IF i = 0 THEN om
        ELSE [om EXCEPT !.objects[i].targetPosition =
                 clampToBounds(placeFrom(om.objects, om.objects[i],
                                         om.objects[i].basePosition, 1))]

\* releaseObject leaving the targets of the other objects alone.
releaseObject_OwnTarget(om, ref) ==
    LET i == indexOf(om, ref)
    IN  IF i = 0 THEN om
        ELSE [om EXCEPT !.objects[i].isGrabbed = FALSE,
                        !.objects[i].targetPosition = om.objects[i].position]

\* The loop of releaseObject from the j-th object of the array on:
\* findBalancedPosition for every object but the one released.
RECURSIVE settleOthers(_, _, _)
settleOthers(om, ref, j) ==
    IF j > Len(om.objects) THEN om
    ELSE IF om.objects[j].id = ref.id THEN settleOthers(om, ref, j + 1)
    ELSE Bind(findBalancedPosition(om, Ref(om.objects[j])), LAMBDA settled :
             settleOthers(settled, ref, j + 1))

\* releaseObject(obj): the object, which may have left the array since it
\* was grabbed, is no longer grabbed and its target is where its mesh is;
\* then every other object of the array is given a new target.
releaseObject(om, ref) == settleOthers(releaseObject_OwnTarget(om, ref), ref, 1)

\* -------------------------------------------------------- BalloonInflator
Min(a, b) == IF a < b THEN a ELSE b

\* simplifyPoints taking the samples 1 .. targetCount instead of
\* 0 .. targetCount - 1.
simplifyPoints_FromOne(points, targetCount) ==
    IF Len(points) <= targetCount THEN points
    ELSE [i \in 1 .. targetCount |->
             points[Min((i * Len(points)) \div targetCount, Len(points) - 1) + 1]]

\* simplifyPoints: sample i (from 0) is the point at index
\* min(floor(i * step), length - 1), with step = length / targetCount.
simplifyPoints(points, targetCount) ==
    IF Len(points) <= targetCount THEN points
    ELSE [i \in 1 .. targetCount |->
             points[Min(((i - 1) * Len(points)) \div targetCount, Len(points) - 1) + 1]]

\* The point of the shape a stroke point becomes: its offset from the
\* centre, a fiftieth of it, with y flipped.
normalizePoint(p, center) ==
    Pt(p.x * center.d - center.x * p.d, -(p.y * center.d - center.y * p.d),
       50 * p.d * center.d)

\* createShape without its fallback for two points.
createShape_FewerThan2(points) ==
    IF Len(points) < 2
    THEN [kind |-> "absarc", center |-> Px(0, 0), radius |-> 1]
    ELSE [kind |-> "closedCurve",
          points |-> [i \in DOMAIN points |->
                         normalizePoint(points[i], getStrokeCenter(points))]]

\* createShape: the full circle of radius 1 about the origin for fewer than
\* three points, else the closed curve through the normalized points.
createShape(points) ==
    IF Len(points) < 3
    THEN [kind |-> "absarc", center |-> Px(0, 0), radius |-> 1]
    ELSE [kind |-> "closedCurve",
          points |-> [i \in DOMAIN points |->
                         normalizePoint(points[i], getStrokeCenter(points))]]

\* The vertices of a geometry are [x, y, z] in units of 1 / VERTEX_UNIT of
\* a world unit, in which the inflation of 0.12 and the 0.001 below which a
\* vertex stays are whole numbers.
VERTEX_UNIT == 7000
inflateAmount == (SCENE.INFLATION_AMOUNT * VERTEX_UNIT) \div 10000
INFLATE_EPSILON == VERTEX_UNIT \div 1000

SetMin(S) == CHOOSE m \in S : \A n \in S : m <= n
SetMax(S) == CHOOSE m \in S : \A n \in S : m >= n

\* Twice the centre of the bounding box, and twice the offset of a vertex
\* from it: the centre may lie half a unit between two whole ones.
Center2(vertices) ==
    LET Axis(f) == { vertices[i][f] : i \in DOMAIN vertices }
    IN  [x |-> SetMin(Axis("x")) + SetMax(Axis("x")),
         y |-> SetMin(Axis("y")) + SetMax(Axis("y")),
         z |-> SetMin(Axis("z")) + SetMax(Axis("z"))]

Offset2(v, c2) == [x |-> 2 * v.x - c2.x, y |-> 2 * v.y - c2.y, z |-> 2 * v.z - c2.z]

NormSquared(d) == d.x * d.x + d.y * d.y + d.z * d.z

\* inflateGeometry moving every vertex, the near ones along x.
inflateVertex_All(v, c2) ==
    LET d == Offset2(v, c2)
    IN  IF NormSquared(d) > 0
        THEN LET dist2 == ISqrt(NormSquared(d))
             IN  [x |-> v.x + RoundOut(d.x * inflateAmount, dist2),
                  y |-> v.y + RoundOut(d.y * inflateAmount, dist2),
                  z |-> v.z + RoundOut(d.z * inflateAmount, dist2)]
        ELSE [v EXCEPT !.x = @ + inflateAmount]

\* The body of the loop of inflateGeometry.
inflateVertex(v, c2) ==
    LET d == Offset2(v, c2)
    IN  IF NormSquared(d) > 4 * INFLATE_EPSILON * INFLATE_EPSILON
        THEN LET dist2 == ISqrt(NormSquared(d))
             IN  [x |-> v.x + RoundOut(d.x * inflateAmount, dist2),
                  y |-> v.y + RoundOut(d.y * inflateAmount, dist2),
                  z |-> v.z + RoundOut(d.z * inflateAmount, dist2)]
        ELSE v

inflateGeometry(vertices) ==
    [i \in DOMAIN vertices |-> inflateVertex(vertices[i], Center2(vertices))]

\* ----------------------------------------------------------- Multiplayer
\* A host and the peers that join its room.  Each has a Multiplayer:
\* [isHost, connections, status, handled]: the keys of its connection map
\* (the ids of the peers at the other end), the status last handed to the
\* status callback with the number of peers its message gives (0 when it
\* gives none), and the events handed to the event callback, in order.
\* The connection of a joiner to the host is [phase, hostListens,
\* joinListens, joinerHandles, openPending, closePending, toHost, toJoiner]:
\* "none" before connect, then "connecting", "open" and "closed"; whether
\* handleConnection has registered its listeners at the host's end, joinRoom
\* its listeners at the joiner's end, and handleConnection its listeners at
\* the joiner's end; the ends at which the open and the close event are
\* still to be emitted; and the data under way in either direction.
\* An event is emitted to the listeners registered when it is emitted.
HostId == "H"
Joiners == { "A", "B" }
Peers == { HostId } \cup Joiners

\* A Multiplayer after initialize has resolved.
MultiplayerNew ==
    [isHost |-> TRUE, connections |-> {},
     status |-> [status |-> "disconnected", peers |-> 0], handled |-> << >>]

ConnNew ==
    [phase |-> "none", hostListens |-> FALSE, joinListens |-> FALSE,
     joinerHandles |-> FALSE, openPending |-> {}, closePending |-> {},
     toHost |-> << >>, toJoiner |-> << >>]

NetNew ==
    [mp |-> [p \in Peers |-> MultiplayerNew], conns |-> [j \in Joiners |-> ConnNew]]

\* The end of its connections a peer holds, and the joiner whose connection
\* a peer holds under a key of its map.
EndOf(p) == IF p = HostId THEN "host" ELSE "joiner"
JoinerOf(p, key) == IF p = HostId THEN key ELSE p

\* conn.open at an end.
ConnOpen(c, end) == c.phase = "open" /\ end \notin c.openPending

updateStatus(n, p, status, peers) ==
    [n EXCEPT !.mp[p].status = [status |-> status, peers |-> peers]]

emitEvent(n, p, event) == [n EXCEPT !.mp[p].handled = Append(@, event)]

\* conn.send(event) on every open connection of p whose key is in keys.
sendOn(n, p, keys, event) ==
    [n EXCEPT !.conns =
        [j \in Joiners |->
            IF p = HostId /\ j \in keys /\ ConnOpen(n.conns[j], "host")
            THEN [n.conns[j] EXCEPT !.toJoiner = Append(@, event)]
            ELSE IF p = j /\ HostId \in keys /\ ConnOpen(n.conns[j], "joiner")
                 THEN [n.conns[j] EXCEPT !.toHost = Append(@, event)]
                 ELSE n.conns[j]]]

Multiplayer_broadcast(n, p, event) == sendOn(n, p, n.mp[p].connections, event)

broadcastExcept(n, p, event, excludePeerId) ==
    sendOn(n, p, n.mp[p].connections \ { excludePeerId }, event)

\* The status handleConnection reports when the map has changed.
statusOfMap(n, p) ==
    updateStatus(n, p, "connected", Cardinality(n.mp[p].connections))

\* The listeners handleConnection registers, for the connection to peerId.
connOnOpen(n, p, peerId) ==
    emitEvent(statusOfMap([n EXCEPT !.mp[p].connections = @ \cup { peerId }], p),
              p, [type |-> "peer_joined", peerId |-> peerId])

\* The listeners handleConnection registers for data, close and error.
connOnData(n, p, peerId, event) ==
    IF n.mp[p].isHost
    THEN broadcastExcept(emitEvent(n, p, event), p, event, peerId)
    ELSE emitEvent(n, p, event)

connOnClose(n, p, peerId) ==
    LET n1 == [n EXCEPT !.mp[p].connections = @ \ { peerId }]
    IN  emitEvent(IF n1.mp[p].connections = {}
                  THEN updateStatus(n1, p, "disconnected", 0)
                  ELSE statusOfMap(n1, p),
                  p, [type |-> "peer_left", peerId |-> peerId])

connOnError(n, p, peerId) == [n EXCEPT !.mp[p].connections = @ \ { peerId }]

\* joinRoom(code) up to the promise it returns: peer.connect.
joinRoom(n, j) ==
    [updateStatus(n, j, "connecting", 0)
        EXCEPT !.conns[j] = [ConnNew EXCEPT !.phase = "connecting",
                                            !.joinListens = TRUE]]

\* The open listener of joinRoom: handleConnection registers its listeners,
\* isHost = false, and the promise resolves.
joinOnOpen(n, j) ==
    [n EXCEPT !.conns[j].joinerHandles = TRUE, !.mp[j].isHost = FALSE]

\* The error listener of joinRoom.
joinOnError(n, j) == updateStatus(n, j, "disconnected", 0)

\* The open event at an end of the connection of j.
emitOpen(n, j, end) ==
    LET c  == n.conns[j]
        n0 == [n EXCEPT !.conns[j].openPending = @ \ { end }]
    IN  IF end = "host"
        THEN IF c.hostListens THEN connOnOpen(n0, HostId, j) ELSE n0
        ELSE LET n1 == IF c.joinListens THEN joinOnOpen(n0, j) ELSE n0
             IN  IF c.joinerHandles THEN connOnOpen(n1, j, HostId) ELSE n1

\* The data event at an end: the oldest event under way arrives.
emitData(n, j, end) ==
    LET c == n.conns[j]
    IN  IF end = "host"
        THEN LET n0 == [n EXCEPT !.conns[j].toHost = Tail(@)]
             IN  IF c.hostListens THEN connOnData(n0, HostId, j, Head(c.toHost))
                 ELSE n0
        ELSE LET n0 == [n EXCEPT !.conns[j].toJoiner = Tail(@)]
             IN  IF c.joinerHandles THEN connOnData(n0, j, HostId, Head(c.toJoiner))
                 ELSE n0

\* The close event at an end.
emitClose(n, j, end) ==
    LET c  == n.conns[j]
        n0 == [n EXCEPT !.conns[j].closePending = @ \ { end }]
    IN  IF end = "host"
        THEN IF c.hostListens THEN connOnClose(n0, HostId, j) ELSE n0
        ELSE IF c.joinerHandles THEN connOnClose(n0, j, HostId) ELSE n0

\* The error event at an end, the connection staying as it is.
emitError(n, j, end) ==
    LET c == n.conns[j]
    IN  IF end = "host"
        THEN IF c.hostListens THEN connOnError(n, HostId, j) ELSE n
        ELSE LET n1 == IF c.joinListens THEN joinOnError(n, j) ELSE n
             IN  IF c.joinerHandles THEN connOnError(n1, j, HostId) ELSE n1

\* A connection closing: nothing under way arrives any more, and the close
\* event is to be emitted at both ends.
closed(c) ==
    IF c.phase \in { "connecting", "open" }
    THEN [c EXCEPT !.phase = "closed", !.openPending = {},
                   !.closePending = { "host", "joiner" },
                   !.toHost = << >>, !.toJoiner = << >>]
    ELSE c

\* disconnect(): every connection of the map is closed, the map cleared.
disconnect(n, p) ==
    updateStatus(
        [n EXCEPT !.conns = [j \in Joiners |->
                                IF (p = HostId /\ j \in n.mp[p].connections)
                                   \/ (p = j /\ HostId \in n.mp[p].connections)
                                THEN closed(n.conns[j]) ELSE n.conns[j]],
                  !.mp[p].connections = {}],
        p, "disconnected", 0)

isConnected(n, p) == n.mp[p].connections # {}

\* ----------------------------------------------------------- HandTracker
\* The HandTracker is [callback, isRunning, loop, videoFrame, inFlight,
\* reported]: whether the callback is set; isRunning; where processFrame
\* stands ("none" before start and after it has returned for good,
\* "scheduled" while its animation frame is requested, "sending" while it
\* awaits hands.send); the number of the frame the video element shows; the
\* frames handed to hands.send whose promise is pending, in the order they
\* were sent; and the frame of the last results handed to onResults.
\* hands.send reports the results of a frame through onResults and then
\* resolves; of several pending frames it may finish any.
HandTrackerNew ==
    [callback |-> FALSE, isRunning |-> FALSE, loop |-> "none", videoFrame |-> 0,
     inFlight |-> << >>, reported |-> 0]

\* processFrame scheduling the next animation frame without awaiting send.
processFrame_NoAwait(ht, ready) ==
    IF ~ht.isRunning THEN [ht EXCEPT !.loop = "none"]
    ELSE IF ready
         THEN [ht EXCEPT !.inFlight = Append(@, ht.videoFrame), !.loop = "scheduled"]
         ELSE [ht EXCEPT !.loop = "scheduled"]

\* processFrame up to its await, or to the end when the video is not ready
\* (readyState < 2).
processFrame(ht, ready) ==
    IF ~ht.isRunning THEN [ht EXCEPT !.loop = "none"]
    ELSE IF ready
         THEN [ht EXCEPT !.inFlight = Append(@, ht.videoFrame), !.loop = "sending"]
         ELSE [ht EXCEPT !.loop = "scheduled"]

\* processFrame after hands.send has resolved.
sendResolved(ht) == [ht EXCEPT !.loop = "scheduled"]

\* start(callback) with the camera granted or denied: its awaits hold
\* nothing another handler changes.
HandTracker_start(ht, granted, ready) ==
    IF ht.isRunning THEN [ht EXCEPT !.callback = TRUE]
    ELSE IF ~granted THEN [ht EXCEPT !.callback = TRUE]
    ELSE processFrame([ht EXCEPT !.callback = TRUE, !.isRunning = TRUE], ready)

\* The sequence s without its element k.
RemoveAt(s, k) == SubSeq(s, 1, k - 1) \o SubSeq(s, k + 1, Len(s))

\* ------------------------------------------------------------- AirCanvas
\* The application is the record of the fields of AirCanvas that its
\* handlers read, with closing: the strokes whose closing animation has not
\* yet created their balloon, in the order the animations started; with
\* inflating: the createFromStroke calls whose inflation animation has not
\* ended, in the order they were made, each [id, stroke, local, phase],
\* local when createBalloon awaits the call, the phase being that of the
\* animation: its delay, its tween, or its tween killed; with handTracker; and with multiplayer: whether a peer is
\* connected, and the events handed to broadcast, in order.

AirCanvasNew ==
    [drawingCanvas |-> DrawingCanvasNew, gestureDetector |-> GestureDetectorNew,
     objectManager |-> ObjectManagerNew, isDrawing |-> FALSE,
     currentColor |-> "#FFB3BA", lastGestureState |-> NULL, palmHoldStart |-> 0,
     handDetected |-> FALSE, grabbedObject |-> NULL, lastPinchPosition |-> NULL,
     closing |-> << >>, inflating |-> << >>, handTracker |-> HandTrackerNew,
     multiplayer |-> [connected |-> FALSE, sent |-> << >>]]

handleDraw(a, position) ==
    Bind([a EXCEPT !.drawingCanvas = updateLivePosition(@, position)], LAMBDA a1 :
    Bind(getObjectAtPosition(a1.objectManager, position), LAMBDA hitObject :
        IF hitObject # NULL
        THEN [a1 EXCEPT !.objectManager = pokeObject(@, Ref(hitObject))]
        ELSE IF ~a1.isDrawing
             THEN [a1 EXCEPT !.isDrawing = TRUE,
                             !.drawingCanvas = startStroke(@, position, a1.currentColor)]
             ELSE [a1 EXCEPT !.drawingCanvas = addPoint(@, position)]))

handlePinch(a, landmarks) ==
    Bind(getPinchCenter(landmarks), LAMBDA pinchCenter :
    Bind(IF a.isDrawing
         THEN [a EXCEPT !.isDrawing = FALSE, !.drawingCanvas = pauseStroke(@)]
         ELSE a,
         LAMBDA a1 :
        IF a1.grabbedObject = NULL
        THEN Bind(getObjectAtPosition(a1.objectManager, pinchCenter), LAMBDA hitObject :
                 IF hitObject # NULL
                 THEN [a1 EXCEPT !.grabbedObject = Ref(hitObject),
                                 !.objectManager = grabObject(@, Ref(hitObject)),
                                 !.inflating = killTweensOfScale(@, Ref(hitObject)),
                                 !.lastPinchPosition = pinchCenter]
                 ELSE a1)
        ELSE LET last == a1.lastPinchPosition
                 om1  == IF last # NULL
                         THEN rotateObject(
                                  moveGrabbedObject(a1.objectManager,
                                                    a1.grabbedObject, pinchCenter),
                                  a1.grabbedObject, 0, 0)
                         ELSE a1.objectManager
             IN  [a1 EXCEPT !.objectManager = om1, !.lastPinchPosition = pinchCenter]))

\* The release of the grabbed object, as handlePalm and the default branch
\* of handleGesture do it.
releaseGrabbed(a) ==
    IF a.grabbedObject # NULL
    THEN [a EXCEPT !.objectManager = releaseObject(@, a.grabbedObject),
                   !.grabbedObject = NULL, !.lastPinchPosition = NULL]
    ELSE a

\* closeAndInflate up to the first frame of its closing animation.
closeAndInflate(a) ==
    Bind(closeStroke(a.drawingCanvas), LAMBDA r :
        LET dc1 == clearLivePosition(r.dc)
        IN  IF r.stroke = NULL
            THEN [a EXCEPT !.drawingCanvas = dc1]
            ELSE [a EXCEPT !.drawingCanvas = dc1, !.isDrawing = FALSE,
                           !.closing = Append(@, r.stroke)])

handlePalm(a, t) ==
    Bind(releaseGrabbed(a), LAMBDA a1 :
    Bind(IF a1.palmHoldStart = 0 THEN [a1 EXCEPT !.palmHoldStart = t] ELSE a1,
         LAMBDA a2 :
        LET holdDuration == t - a2.palmHoldStart
        IN  IF holdDuration >= GESTURE.PALM_HOLD_TIME
            THEN [closeAndInflate(a2) EXCEPT !.palmHoldStart = 0]
            ELSE a2))

handleSwipe(a, position) ==
    LET hitObject == getObjectAtPosition(a.objectManager, position)
    IN  IF hitObject # NULL
        THEN [a EXCEPT !.objectManager = removeObject(@, Ref(hitObject))]
        ELSE a

handleGesture(a, state, landmarks, t) ==
    LET indexTip == getIndexTip(landmarks)
    IN  Bind(CASE state.current = "draw"  -> handleDraw(a, indexTip)
               [] state.current = "pinch" -> handlePinch(a, landmarks)
               [] state.current = "palm"  -> handlePalm(a, t)
               [] state.current = "swipe" -> handleSwipe(a, indexTip)
               [] OTHER -> releaseGrabbed(a),
             LAMBDA a1 :
        IF a1.lastGestureState # NULL /\ state.current # a1.lastGestureState.current
        THEN [a1 EXCEPT !.palmHoldStart = 0,
                        !.drawingCanvas =
                            IF a1.lastGestureState.current = "draw"
                            THEN clearLivePosition(@) ELSE @]
        ELSE a1)

\* onHandResults when the hand is lost.
onHandLost_Discard(a) ==
    [a EXCEPT !.handDetected = FALSE, !.isDrawing = FALSE,
              !.drawingCanvas = discardStroke(@)]

onHandLost(a) == [a EXCEPT !.handDetected = FALSE, !.isDrawing = FALSE]

\* onHandResults: landmarks is NULL when no hand is in the frame; t is the
\* clock, which detect and handlePalm read.
onHandResults(a, landmarks, t) ==
    IF landmarks = NULL THEN onHandLost(a)
    ELSE Bind(detect(a.gestureDetector, landmarks, t), LAMBDA r :
         Bind([a EXCEPT !.handDetected = TRUE, !.gestureDetector = r.gd], LAMBDA a1 :
             [handleGesture(a1, r.state, landmarks, t)
                  EXCEPT !.lastGestureState = r.state]))

\* The type of an event, "undefined" when the sender left it out.
typeOf(event) == IF "type" \in DOMAIN event THEN event.type ELSE "undefined"

\* MultiplayerManager.broadcast: the event is sent on the open connection.
broadcast(a, event) ==
    IF a.multiplayer.connected
    THEN [a EXCEPT !.multiplayer.sent = Append(@, event)]
    ELSE a

\* createBalloonMesh reads stroke.points.length first: a TypeError when the
\* stroke or its points are missing, before anything is created.
createBalloonMeshThrows(event) ==
    \/ "strokeData" \notin DOMAIN event
    \/ "points" \notin DOMAIN event.strokeData

\* A call of createFromStroke up to its first await: animateInflation has
\* scheduled its delayed call, and the promise the call awaits is pending.
startCreateFromStroke(a, stroke, local) ==
    [a EXCEPT !.inflating = Append(@, [id |-> a.objectManager.idCounter,
                                       stroke |-> stroke, local |-> local,
                                       phase |-> "delay"]),
              !.objectManager = createFromStroke(@, stroke)]

\* The index of the oldest pending call of createFromStroke whose
\* animation is in a phase, 0 when there is none.
oldestIn(inflating, phase) ==
    LET at == { k \in DOMAIN inflating : inflating[k].phase = phase }
    IN  IF at = {} THEN 0 ELSE CHOOSE k \in at : \A l \in at : k <= l

\* The delayed call of animateInflation, 0.3 s after the call: the tween of
\* the scale of the mesh starts, whose onComplete resolves the promise.
inflationStart(a) ==
    [a EXCEPT !.inflating[oldestIn(a.inflating, "delay")].phase = "tween"]

\* createBalloon up to the first await of createFromStroke.
createBalloon(a, stroke) ==
    startCreateFromStroke(
        [a EXCEPT !.drawingCanvas.completedStrokes = removeCompletedStroke(@, stroke)],
        stroke, TRUE)

\* The pending call of createFromStroke whose tween ends next.
inflationEnding(a) == a.inflating[oldestIn(a.inflating, "tween")]

\* createFromStroke after its await: findBalancedPosition(balloonObject),
\* whether or not the object is grabbed or still in the array (the target
\* and the tween of an object that has left the array are outside the
\* state of the ObjectManager), and the return.
createFromStrokeResumed(a) ==
    [a EXCEPT !.inflating = RemoveAt(@, oldestIn(a.inflating, "tween")),
              !.objectManager = findBalancedPosition(@, [id |-> inflationEnding(a).id])]

\* The end of the oldest inflation tween without the broadcast.
inflationDone_NoBroadcast(a) == createFromStrokeResumed(a)

inflationDone(a) ==
    IF inflationEnding(a).local
    THEN broadcast(createFromStrokeResumed(a),
                   [type |-> "balloon_created",
                    strokeData |-> inflationEnding(a).stroke])
    ELSE createFromStrokeResumed(a)

\* The last frame of the oldest closing animation.
closingAnimationDone(a) ==
    createBalloon([a EXCEPT !.closing = Tail(@)], Head(a.closing))

AirCanvas_clearAll(a) ==
    [a EXCEPT !.drawingCanvas = DrawingCanvas_clearAll(@),
              !.objectManager = ObjectManager_clearAll(@)]

\* The click on the clear-all button: clearAll up to its first await, then
\* the broadcast.
clearAllClick(a) == broadcast(AirCanvas_clearAll(a), [type |-> "clear_all"])

\* handleMultiplayerEvent clearing the canvas for a balloon of the peer.
handleMultiplayerEvent_ClearsCanvas(a, event) ==
    CASE typeOf(event) = "balloon_created" ->
             IF createBalloonMeshThrows(event) THEN a
             ELSE [startCreateFromStroke(a, event.strokeData, FALSE)
                       EXCEPT !.drawingCanvas = DrawingCanvas_clearAll(@)]
      [] typeOf(event) = "clear_all" ->
             [a EXCEPT !.drawingCanvas = DrawingCanvas_clearAll(@),
                       !.objectManager = ObjectManager_clearAll(@)]
      [] OTHER -> a

\* handleMultiplayerEvent on whatever a peer sent.  createFromStroke is not
\* awaited: when it throws, the application is as before and the rejection
\* of its promise is handled by nobody.
handleMultiplayerEvent(a, event) ==
    CASE typeOf(event) = "balloon_created" ->
             IF createBalloonMeshThrows(event) THEN a
             ELSE startCreateFromStroke(a, event.strokeData, FALSE)
      [] typeOf(event) = "clear_all" ->
             [a EXCEPT !.drawingCanvas = DrawingCanvas_clearAll(@),
                       !.objectManager = ObjectManager_clearAll(@)]
      [] OTHER -> a

\* The fault handleMultiplayerEvent leaves unhandled, or NULL.
unhandledRejection(event) ==
    IF typeOf(event) = "balloon_created" /\ createBalloonMeshThrows(event)
    THEN [error |-> "TypeError"] ELSE NULL

\* ------------------------------------------------------------------ state
\* Each specification below runs one part of the program and leaves the
\* variables of the other parts as they are after construction.
VARIABLES
    dc,          \* a DrawingCanvas on its own: currentStroke,
                 \* completedStrokes, livePosition, filteredPosition,
                 \* recentPoints
    rawPoints,   \* the raw positions its run draws its inputs from
    gd,          \* a GestureDetector on its own
    app,         \* the application: AirCanvas with its DrawingCanvas,
                 \* GestureDetector and ObjectManager
    now,         \* performance.now() at the last frame, in milliseconds
    lostStroke,  \* the stroke that was in progress when the application
                 \* last lost the hand, NULL once drawing has gone on
    calls,       \* number of calls or inputs so far
    lastOp,      \* name of the operation performed last
    lastIn,      \* its argument, or NULL
    lastOut,     \* the value it returned, or NULL
    net          \* the Multiplayer objects of a host and of the peers that
                 \* join its room, and the connections between them

vars ==
    << dc, rawPoints, gd, app, now, lostStroke, calls, lastOp, lastIn, lastOut, net >>

\* ------------------------------------------------------------------ bounds
\* Operations per run of the DrawingCanvas specification.
MaxCalls == 5

\* Raw positions around the jitter threshold: (0,0)-(3,0) are exactly
\* JITTER_THRESHOLD apart, (1,1) is closer than that to both.
JitterPoints == { Px(0, 0), Px(3, 0), Px(1, 1) }

\* Raw positions far enough apart to pass the spacing gate: (0,0)-(80,60)
\* are 100 apart, (0,0)-(0,60) are 60 apart.
StrokePoints == { Px(0, 0), Px(0, 60), Px(80, 60) }

Colors == { "#FFB3BA", "#BAE1FF" }

\* ------------------------------------- specification of the DrawingCanvas
\* Any sequence of calls of the public methods of one DrawingCanvas.
NothingCalled ==
    /\ calls = 0
    /\ lastOp = "new"
    /\ lastIn = NULL
    /\ lastOut = NULL

CanvasInit ==
    /\ dc = DrawingCanvasNew
    /\ rawPoints \in { JitterPoints, StrokePoints }
    /\ gd = GestureDetectorNew
    /\ net = NetNew
    /\ app = AirCanvasNew
    /\ now = 0
    /\ lostStroke = NULL
    /\ NothingCalled

\* The record of a call or input, of which a run has at most max.
Input(op, in, out, max) ==
    /\ calls < max
    /\ calls' = calls + 1
    /\ lastOp' = op
    /\ lastIn' = in
    /\ lastOut' = out

Called(op, in, out, max) ==
    /\ Input(op, in, out, max)
    /\ UNCHANGED << rawPoints, gd, app, now, lostStroke, net >>

CallStartStroke(max) ==
    \E p \in rawPoints, c \in Colors :
        /\ dc' = startStroke(dc, p, c)
        /\ Called("startStroke", p, NULL, max)

CallAddPoint(max) ==
    \E p \in rawPoints :
        /\ dc' = addPoint(dc, p)
        /\ Called("addPoint", p, NULL, max)

CallUpdateLivePosition(max) ==
    \E p \in rawPoints :
        /\ dc' = updateLivePosition(dc, p)
        /\ Called("updateLivePosition", p, NULL, max)

CallClearLivePosition(max) ==
    /\ dc' = clearLivePosition(dc)
    /\ Called("clearLivePosition", NULL, NULL, max)

CallPauseStroke(max) ==
    /\ dc' = pauseStroke(dc)
    /\ Called("pauseStroke", NULL, NULL, max)

CallCloseStroke(max) ==
    /\ dc' = closeStroke(dc).dc
    /\ Called("closeStroke", NULL, closeStroke(dc).stroke, max)

CallDiscardStroke(max) ==
    /\ dc' = discardStroke(dc)
    /\ Called("discardStroke", NULL, NULL, max)

CallClearAll(max) ==
    /\ dc' = DrawingCanvas_clearAll(dc)
    /\ Called("clearAll", NULL, NULL, max)

CanvasNext ==
    \/ CallStartStroke(MaxCalls)
    \/ CallAddPoint(MaxCalls)
    \/ CallUpdateLivePosition(MaxCalls)
    \/ CallClearLivePosition(MaxCalls)
    \/ CallPauseStroke(MaxCalls)
    \/ CallCloseStroke(MaxCalls)
    \/ CallDiscardStroke(MaxCalls)
    \/ CallClearAll(MaxCalls)

SpecCanvas == CanvasInit /\ [][CanvasNext]_vars

\* ---------------------------------- specification of the smoothing buffer
\* Runs of the calls that feed or empty the smoothing buffer.  A run starts
\* from a canvas on which a stroke was started at p and the hand then held
\* still at q for `still` calls of updateLivePosition(q), so that the buffer
\* is filled to any length up to its capacity before the calls of the run.
MaxSmoothCalls == 3

RECURSIVE HoldStill(_, _, _)
HoldStill(canvas, p, still) ==
    IF still = 0 THEN canvas
    ELSE HoldStill(updateLivePosition(canvas, p), p, still - 1)

SmoothInit ==
    /\ rawPoints \in { JitterPoints, StrokePoints }
    /\ \E p \in rawPoints, q \in rawPoints, c \in Colors, still \in 0 .. SMOOTH_WINDOW :
           dc = HoldStill(startStroke(DrawingCanvasNew, p, c), q, still)
    /\ gd = GestureDetectorNew
    /\ net = NetNew
    /\ app = AirCanvasNew
    /\ now = 0
    /\ lostStroke = NULL
    /\ NothingCalled

SmoothNext ==
    \/ CallStartStroke(MaxSmoothCalls)
    \/ CallAddPoint(MaxSmoothCalls)
    \/ CallUpdateLivePosition(MaxSmoothCalls)
    \/ CallClearLivePosition(MaxSmoothCalls)

SpecSmooth == SmoothInit /\ [][SmoothNext]_vars


\* ------------------------------------------------------------ hand frames
\* A hand whose index tip is at indexTip, whose thumb tip is `pinch` pixels
\* to the right of it, and whose four fingers are each "open" (the tip above
\* its PIP joint on the screen, a smaller y), "curled" (below it) or "level"
\* (at its height).  The palm follows the index tip.
Hand(indexTip, pinch, fingers) ==
    LET at(dx, dy) == PtAdd(indexTip, Px(dx, dy))
        bend(k)    == IF fingers[k] = "open" THEN 20
                      ELSE IF fingers[k] = "curled" THEN -20 ELSE 0
    IN  [landmarks |->
            [i \in 0 .. 20 |->
                CASE i = LANDMARKS.THUMB_TIP  -> at(pinch, 0)
                  [] i = LANDMARKS.INDEX_TIP  -> at(0, 0)
                  [] i = LANDMARKS.INDEX_PIP  -> at(0, bend(1))
                  [] i = LANDMARKS.MIDDLE_TIP -> at(20, 0)
                  [] i = LANDMARKS.MIDDLE_PIP -> at(20, bend(2))
                  [] i = LANDMARKS.RING_TIP   -> at(40, 0)
                  [] i = LANDMARKS.RING_PIP   -> at(40, bend(3))
                  [] i = LANDMARKS.PINKY_TIP  -> at(60, 0)
                  [] i = LANDMARKS.PINKY_PIP  -> at(60, bend(4))
                  [] i = LANDMARKS.INDEX_MCP  -> at(0, 60)
                  [] i = LANDMARKS.PINKY_MCP  -> at(60, 60)
                  [] OTHER                    -> at(30, 150)]]

Pointing  == << "open", "curled", "curled", "curled" >>
OpenPalm  == << "open", "open", "open", "open" >>
Fist      == << "curled", "curled", "curled", "curled" >>
TwoCurled == << "curled", "open", "open", "curled" >>
LevelIndex == << "level", "curled", "curled", "curled" >>
AllLevel  == << "level", "level", "level", "level" >>

\* ------------------------------------ specification of the GestureDetector
\* Any sequence of calls of detect on one GestureDetector, with a hand or
\* with null, the clock advancing between the calls.
MaxDetectCalls == 3

\* Milliseconds between two frames.
Dts == { 250, 500 }

\* Thumb-index distances on both sides of the configured threshold (40) and
\* of the distance the classifier compares with (60), under each posture of
\* the fingers, a palm that has moved, and fingers whose tips are level with
\* their joints.
DetectorFrames ==
    { Hand(Px(0, 0), 30, Pointing), Hand(Px(0, 0), 50, Pointing),
      Hand(Px(0, 0), 60, Pointing), Hand(Px(0, 0), 100, Pointing),
      Hand(Px(0, 0), 30, OpenPalm), Hand(Px(0, 0), 100, OpenPalm),
      Hand(Px(30, 40), 100, OpenPalm), Hand(Px(0, 0), 100, Fist),
      Hand(Px(0, 0), 100, TwoCurled), Hand(Px(0, 0), 100, LevelIndex),
      Hand(Px(0, 0), 100, AllLevel) }

DetectorInit ==
    /\ gd = GestureDetectorNew
    /\ net = NetNew
    /\ now = 0
    /\ dc = DrawingCanvasNew
    /\ rawPoints = {}
    /\ app = AirCanvasNew
    /\ lostStroke = NULL
    /\ NothingCalled

Detect ==
    \E landmarks \in DetectorFrames, dt \in Dts :
        /\ now' = now + dt
        /\ gd' = detect(gd, landmarks, now').gd
        /\ Input("detect", landmarks, detect(gd, landmarks, now').state, MaxDetectCalls)
        /\ UNCHANGED << dc, rawPoints, app, lostStroke, net >>

DetectNull ==
    \E dt \in Dts :
        /\ now' = now + dt
        /\ gd' = detect(gd, NULL, now').gd
        /\ Input("detectNull", NULL, detect(gd, NULL, now').state, MaxDetectCalls)
        /\ UNCHANGED << dc, rawPoints, app, lostStroke, net >>

DetectorNext ==
    \/ Detect
    \/ DetectNull

SpecDetector == DetectorInit /\ [][DetectorNext]_vars


\* ------------------------------------------ specification of the application
\* The hand frames, the lost-hand frames and the clear-all requests that
\* reach AirCanvas, and the animations and delayed calls they leave behind.
\* Hand frames and lost-hand frames and clear-all requests are the inputs, of
\* which a run has at most MaxInputs.
MaxInputs == 4

\* Where the index tip draws, and the centre of the balloon made of the
\* stroke of DrawnScript.
DrawA == Px(0, 0)
DrawF == Px(0, 90)
OnBalloon == Px(0, 44)

\* Pointing hands at three places, pinches centred on the balloon and 100
\* pixels to its right, an open palm and a fist.
AppFrames ==
    { Hand(DrawA, 100, Pointing), Hand(DrawF, 100, Pointing),
      Hand(OnBalloon, 100, Pointing),
      Hand(Px(-15, 44), 30, Pointing), Hand(Px(85, 44), 30, Pointing),
      Hand(DrawA, 100, OpenPalm), Hand(DrawA, 100, Fist) }

Frame(landmarks, dt) == [op |-> "onHandResults", landmarks |-> landmarks, dt |-> dt]

\* The application and the clock after the steps of a script, each a hand
\* frame dt milliseconds after the one before or the end of the oldest
\* closing animation.
RECURSIVE Replay(_, _, _)
Replay(a, t, script) ==
    IF script = << >> THEN [app |-> a, now |-> t]
    ELSE LET step == Head(script)
             dt   == IF step.op = "closingAnimationDone" THEN 0 ELSE step.dt
             after == { IF step.op = "closingAnimationDone"
                        THEN closingAnimationDone(a)
                        ELSE onHandResults(a, step.landmarks, t + dt) }
         IN  CHOOSE r \in { Replay(a1, t + dt, Tail(script)) : a1 \in after } : TRUE

\* Three draw frames, which leave a stroke of three points in progress.
DrawnScript ==
    << Frame(Hand(DrawA, 100, Pointing), 250), Frame(Hand(DrawF, 100, Pointing), 250),
       Frame(Hand(DrawF, 100, Pointing), 250) >>

\* The same followed by a palm held until the stroke is closed, and by the
\* end of its closing animation, which leave one balloon in the scene.
BalloonScript ==
    DrawnScript \o
    << Frame(Hand(DrawA, 100, OpenPalm), 250), Frame(Hand(DrawA, 100, OpenPalm), 250),
       Frame(Hand(DrawA, 100, OpenPalm), 500), [op |-> "closingAnimationDone"] >>

\* A run starts after construction, or after one of the two scripts.
AppInit ==
    /\ \E script \in { << >>, DrawnScript, BalloonScript } :
           /\ app = Replay(AirCanvasNew, 0, script).app
           /\ now = Replay(AirCanvasNew, 0, script).now
    /\ lostStroke = NULL
    /\ dc = DrawingCanvasNew
    /\ rawPoints = {}
    /\ gd = GestureDetectorNew
    /\ net = NetNew
    /\ NothingCalled

\* An asynchronous step of the application: no input is consumed.
Step(op) ==
    /\ lastOp' = op
    /\ lastIn' = NULL
    /\ lastOut' = NULL
    /\ UNCHANGED << calls, now, lostStroke, dc, rawPoints, gd, net >>

\* The time since the last frame: a palm arrives after either of Dts, so
\* that it is held for less than, and as long as, GESTURE.PALM_HOLD_TIME; the
\* time before any other frame is read by no handler.
FrameDts(landmarks) ==
    IF landmarks = Hand(DrawA, 100, OpenPalm) THEN Dts ELSE { 250 }

HandFrame ==
    \E landmarks \in AppFrames :
      \E dt \in FrameDts(landmarks) :
        /\ now' = now + dt
        /\ app' = onHandResults(app, landmarks, now')
        /\ lostStroke' = IF app'.lastGestureState.current = "draw" THEN NULL
                         ELSE lostStroke
        /\ Input("handFrame", landmarks, app'.lastGestureState, MaxInputs)
        /\ UNCHANGED << dc, rawPoints, gd, net >>

HandLost ==
    \E dt \in FrameDts(NULL) :
        /\ now' = now + dt
        /\ app' = onHandResults(app, NULL, now')
        /\ lostStroke' = app.drawingCanvas.currentStroke
        /\ Input("handLost", NULL, NULL, MaxInputs)
        /\ UNCHANGED << dc, rawPoints, gd, net >>

\* The click on the clear-all button.
ClearAllClick ==
    /\ app' = clearAllClick(app)
    /\ lostStroke' = NULL
    /\ Input("clearAllClick", NULL, NULL, MaxInputs)
    /\ UNCHANGED << now, dc, rawPoints, gd, net >>

\* A clear_all event from a peer.
RemoteClearAll ==
    /\ app' = handleMultiplayerEvent(app, [type |-> "clear_all"])
    /\ lostStroke' = NULL
    /\ Input("remoteClearAll", NULL, NULL, MaxInputs)
    /\ UNCHANGED << now, dc, rawPoints, gd, net >>

ClosingAnimationDone ==
    /\ app.closing # << >>
    /\ app' = closingAnimationDone(app)
    /\ Step("closingAnimationDone")

InflationStart ==
    /\ oldestIn(app.inflating, "delay") # 0
    /\ app' = inflationStart(app)
    /\ Step("inflationStart")

InflationDone ==
    /\ oldestIn(app.inflating, "tween") # 0
    /\ app' = inflationDone(app)
    /\ Step("inflationDone")

ClearAllDelayedCall ==
    \E j \in DOMAIN app.objectManager.clearing :
        /\ app.objectManager.clearing[j].next < app.objectManager.clearing[j].n
        /\ app' = [app EXCEPT !.objectManager = clearAllDelayedCall(@, j)]
        /\ Step("clearAllDelayedCall")

RemoveObjectDone ==
    \E id \in app.objectManager.removing :
        /\ app' = [app EXCEPT !.objectManager = removeObjectDone(@, id)]
        /\ Step("removeObjectDone")

ClearAllResolved ==
    \E j \in DOMAIN app.objectManager.clearing :
        /\ app.objectManager.clearing[j].next = app.objectManager.clearing[j].n
        /\ app.objectManager.clearing[j].awaiting = {}
        /\ app' = [app EXCEPT !.objectManager = clearAllResolved(@, j)]
        /\ Step("clearAllResolved")

Next ==
    \/ HandFrame
    \/ HandLost
    \/ ClearAllClick
    \/ RemoteClearAll
    \/ ClosingAnimationDone
    \/ InflationStart
    \/ InflationDone
    \/ ClearAllDelayedCall
    \/ RemoveObjectDone
    \/ ClearAllResolved

Spec == AppInit /\ [][Next]_vars


\* ------------------------------------ specification of the connected peer
\* The application with one peer connected: the payloads the peer sends, the
\* clicks on the clear-all button, and the animations and delayed calls they
\* leave behind.  A run has at most MaxInputs payloads and clicks.
PeerStroke ==
    [points |-> << Px(200, 200), Px(260, 200), Px(230, 260) >>,
     color |-> "#BAE1FF", width |-> STROKE.WIDTH, closed |-> TRUE]

\* Well-formed events, and payloads that are none: an unknown type, no type,
\* a balloon without its stroke, with a stroke without points and with a
\* stroke of no points.
MalformedPayloads ==
    { [type |-> "balloon_popped"], [peerId |-> "peer"],
      [type |-> "balloon_created"],
      [type |-> "balloon_created", strokeData |-> [color |-> "#BAE1FF"]],
      [type |-> "balloon_created", strokeData |-> [PeerStroke EXCEPT !.points = << >>]] }

Payloads ==
    { [type |-> "balloon_created", strokeData |-> PeerStroke],
      [type |-> "clear_all"] } \cup MalformedPayloads

\* The palm held until the stroke of DrawnScript is closed: its closing
\* animation runs.
ClosingScript ==
    DrawnScript \o
    << Frame(Hand(DrawA, 100, OpenPalm), 250), Frame(Hand(DrawA, 100, OpenPalm), 250),
       Frame(Hand(DrawA, 100, OpenPalm), 500) >>

AirCanvasConnected == [AirCanvasNew EXCEPT !.multiplayer.connected = TRUE]

PeerInit ==
    /\ \E script \in { << >>, DrawnScript, ClosingScript, BalloonScript } :
           /\ app = Replay(AirCanvasConnected, 0, script).app
           /\ now = Replay(AirCanvasConnected, 0, script).now
    /\ lostStroke = NULL
    /\ dc = DrawingCanvasNew
    /\ rawPoints = {}
    /\ gd = GestureDetectorNew
    /\ net = NetNew
    /\ NothingCalled

\* The data callback of the connection: the listener of the application
\* handles the payload; with one peer there is nobody to pass it on to.
RemoteEvent ==
    \E data \in Payloads :
        /\ app' = handleMultiplayerEvent(app, data)
        /\ lostStroke' = lostStroke
        /\ Input("remoteEvent", data, unhandledRejection(data), MaxInputs)
        /\ UNCHANGED << now, dc, rawPoints, gd, net >>

PeerNext ==
    \/ RemoteEvent
    \/ ClearAllClick
    \/ ClosingAnimationDone
    \/ InflationStart
    \/ InflationDone
    \/ ClearAllDelayedCall
    \/ RemoveObjectDone
    \/ ClearAllResolved

SpecPeer == PeerInit /\ [][PeerNext]_vars

\* ------------------------------------ specification of the crowded scene
\* The connected application after a peer has sent the balloons that fill
\* the scene, or all but one or two of them, and their inflations have
\* ended; then the payloads the peer sends and the ends of the inflations.
RECURSIVE Crowd(_)
Crowd(n) ==
    IF n = 0 THEN AirCanvasConnected
    ELSE inflationDone(inflationStart(
             handleMultiplayerEvent(
                 Crowd(n - 1), [type |-> "balloon_created", strokeData |-> PeerStroke])))

CrowdInit ==
    /\ \E n \in (SCENE.MAX_OBJECTS - 2) .. SCENE.MAX_OBJECTS : app = Crowd(n)
    /\ now = 0
    /\ lostStroke = NULL
    /\ dc = DrawingCanvasNew
    /\ rawPoints = {}
    /\ gd = GestureDetectorNew
    /\ net = NetNew
    /\ NothingCalled

CrowdNext ==
    \/ RemoteEvent
    \/ InflationStart
    \/ InflationDone

SpecCrowd == CrowdInit /\ [][CrowdNext]_vars

\* ------------------------------------- specification of the inflations
\* The connected application and the hand frames that reach it while the
\* closing animation of a stroke and the inflation of its balloon run.  The
\* ticker of the animation library keeps running: the delayed call of an
\* inflation is made when it is due, and a tween that runs ends.
InflationNext ==
    \/ HandFrame
    \/ ClosingAnimationDone
    \/ InflationStart
    \/ InflationDone

SpecInflation ==
    /\ PeerInit
    /\ [][InflationNext]_vars
    /\ WF_vars(InflationStart)
    /\ WF_vars(InflationDone)

\* ---------------------------------------- specification of the HandTracker
\* The tracking loop of the application: init starts the tracker once, the
\* camera shows new frames, the animation frames run processFrame, and
\* hands.send reports results, which onResults hands to onHandResults.  A
\* run has at most MaxResults results and the video MaxVideoFrames frames.
MaxResults == 3
MaxVideoFrames == 3

\* The landmarks onResults makes of the results: no hand, or a hand.
TrackerResults == { NULL, Hand(DrawA, 100, Pointing), Hand(DrawF, 100, Pointing) }

TrackerInit ==
    /\ app = AirCanvasNew
    /\ now = 0
    /\ lostStroke = NULL
    /\ dc = DrawingCanvasNew
    /\ rawPoints = {}
    /\ gd = GestureDetectorNew
    /\ net = NetNew
    /\ NothingCalled

\* AirCanvas.init: the one call of start.
TrackerStart ==
    /\ ~app.handTracker.callback
    /\ \E granted \in BOOLEAN, ready \in BOOLEAN :
           app' = [app EXCEPT !.handTracker = HandTracker_start(@, granted, ready)]
    /\ Step("start")

\* The camera delivers the next frame to the video element.
VideoFrame ==
    /\ app.handTracker.isRunning
    /\ app.handTracker.videoFrame < MaxVideoFrames
    /\ app' = [app EXCEPT !.handTracker.videoFrame = @ + 1]
    /\ Step("videoFrame")

\* The requested animation frame.
AnimationFrame ==
    /\ app.handTracker.loop = "scheduled"
    /\ \E ready \in BOOLEAN :
           app' = [app EXCEPT !.handTracker = processFrame(@, ready)]
    /\ Step("processFrame")

\* hands.send finishes a pending frame: onResults hands its landmarks to
\* the callback, then the promise resolves and processFrame goes on.
HandsResults ==
    \E k \in DOMAIN app.handTracker.inFlight :
      \E landmarks \in TrackerResults :
        LET frame == app.handTracker.inFlight[k]
        IN  /\ now' = now + 250
            /\ app' = [(IF app.handTracker.callback
                         THEN onHandResults(app, landmarks, now') ELSE app)
                           EXCEPT !.handTracker =
                               sendResolved([@ EXCEPT !.inFlight = RemoveAt(@, k),
                                                      !.reported = frame])]
            /\ lostStroke' = lostStroke
            /\ Input("onResults", [frame |-> frame, landmarks |-> landmarks],
                     NULL, MaxResults)
            /\ UNCHANGED << dc, rawPoints, gd, net >>

TrackerNext ==
    \/ TrackerStart
    \/ VideoFrame
    \/ AnimationFrame
    \/ HandsResults

SpecTracker == TrackerInit /\ [][TrackerNext]_vars

\* ------------------------------------ specification of the BalloonInflator
\* The steps of createBalloonMesh that make the shape of a stroke and
\* inflate a geometry, on strokes of 0 to MaxStrokePoints points and on
\* geometries whose vertices stand at whole distances from the centre of
\* their bounding box.  A run has at most MaxInflatorCalls calls.
MaxInflatorCalls == 2
MaxStrokePoints == 42

\* createBalloonMesh: simplifyPoints(stroke.points, 20).
SIMPLIFY_TARGET == 20

\* n distinct points, on one of two paths.
Points(n, k) == [i \in 1 .. n |-> Px(10 * i, k * ((i * i) % 7))]

V(x, y, z) == [x |-> x, y |-> y, z |-> z]

Shifted(vertices, by) ==
    [i \in DOMAIN vertices |->
        V(vertices[i].x + by.x, vertices[i].y + by.y, vertices[i].z + by.z)]

\* Vertices at the ends of the box, at its centre, at, within and just
\* beyond 0.001 of it, and in between.
Centred ==
    << V(2100, 0, 0), V(-2100, 0, 0), V(0, 1400, 0), V(0, -1400, 0), V(0, 0, 700),
       V(0, 0, -700), V(0, 0, 0), V(7, 0, 0), V(0, -7, 0), V(2, 3, 6), V(8, 0, 0),
       V(350, 700, 700), V(200, 300, 600), V(-900, -1200, 0) >>

\* A box whose centre lies half a unit between two whole ones.
HalfCentred ==
    << V(0, 0, 0), V(4201, 0, 0), V(2100, 0, 0), V(2101, 0, 0), V(2104, 0, 0),
       V(2107, 0, 0), V(2108, 0, 0), V(2093, 0, 0) >>

Geometries ==
    { Centred, Shifted(Centred, V(1000, -500, 300)), HalfCentred,
      << V(5, 5, 5) >> }

InflatorInit ==
    /\ app = AirCanvasNew
    /\ now = 0
    /\ lostStroke = NULL
    /\ dc = DrawingCanvasNew
    /\ rawPoints = {}
    /\ gd = GestureDetectorNew
    /\ net = NetNew
    /\ NothingCalled

CreateBalloonShape ==
    \E n \in 0 .. MaxStrokePoints, k \in { 1, 3 } :
        LET simplifiedPoints == simplifyPoints(Points(n, k), SIMPLIFY_TARGET)
        IN  /\ Input("createBalloonMesh", Points(n, k),
                     [simplifiedPoints |-> simplifiedPoints,
                      shape |-> createShape(simplifiedPoints)],
                     MaxInflatorCalls)
            /\ UNCHANGED << app, now, lostStroke, dc, rawPoints, gd, net >>

InflateGeometry ==
    \E geometry \in Geometries :
        /\ Input("inflateGeometry", geometry, inflateGeometry(geometry),
                 MaxInflatorCalls)
        /\ UNCHANGED << app, now, lostStroke, dc, rawPoints, gd, net >>

InflatorNext ==
    \/ CreateBalloonShape
    \/ InflateGeometry

SpecInflator == InflatorInit /\ [][InflatorNext]_vars

\* ---------------------------------------- specification of the Multiplayer
\* A host and two peers that join its room, all initialized: the calls of
\* joinRoom, broadcast and disconnect, the connections closing and failing,
\* and the events of the connections these leave to be emitted.  A run has
\* at most MaxNetInputs calls, closings and errors.
MaxNetInputs == 4

Ends == { "host", "joiner" }

NetInit ==
    /\ app = AirCanvasNew
    /\ now = 0
    /\ lostStroke = NULL
    /\ dc = DrawingCanvasNew
    /\ rawPoints = {}
    /\ gd = GestureDetectorNew
    /\ net = NetNew
    /\ NothingCalled

NetInput(op, in) ==
    /\ Input(op, in, NULL, MaxNetInputs)
    /\ UNCHANGED << app, now, lostStroke, dc, rawPoints, gd >>

\* An event of a connection: no input is consumed.
NetEvent(op, in) ==
    /\ lastOp' = op
    /\ lastIn' = in
    /\ lastOut' = NULL
    /\ UNCHANGED << calls, app, now, lostStroke, dc, rawPoints, gd >>

NetJoinRoom ==
    \E j \in Joiners :
        /\ net.conns[j].phase = "none"
        /\ net' = joinRoom(net, j)
        /\ NetInput("joinRoom", j)

\* The connection event of the host's peer: handleConnection(conn).
NetConnection ==
    \E j \in Joiners :
        /\ net.conns[j].phase = "connecting"
        /\ ~net.conns[j].hostListens
        /\ net' = [net EXCEPT !.conns[j].hostListens = TRUE]
        /\ NetEvent("connection", j)

\* The data channel opens.
NetChannelOpen ==
    \E j \in Joiners :
        /\ net.conns[j].phase = "connecting"
        /\ net.conns[j].hostListens
        /\ net' = [net EXCEPT !.conns[j].phase = "open", !.conns[j].openPending = Ends]
        /\ NetEvent("channelOpen", j)

NetOpenEvent ==
    \E j \in Joiners, end \in Ends :
        /\ end \in net.conns[j].openPending
        /\ net' = emitOpen(net, j, end)
        /\ NetEvent("open", [joiner |-> j, end |-> end])

NetBroadcast ==
    \E p \in Peers :
        LET event == [type |-> "clear_all", seq |-> calls + 1]
        IN  /\ net' = Multiplayer_broadcast(net, p, event)
            /\ NetInput("broadcast", [from |-> p, event |-> event])

NetDataEvent ==
    \E j \in Joiners, end \in Ends :
        /\ IF end = "host" THEN net.conns[j].toHost # << >>
                           ELSE net.conns[j].toJoiner # << >>
        /\ net' = emitData(net, j, end)
        /\ NetEvent("data", [joiner |-> j, end |-> end])

\* A connection is closed from outside: the other peer or the network.
NetClose ==
    \E j \in Joiners :
        /\ net.conns[j].phase \in { "connecting", "open" }
        /\ net' = [net EXCEPT !.conns[j] = closed(@)]
        /\ NetInput("close", j)

NetCloseEvent ==
    \E j \in Joiners, end \in Ends :
        /\ end \in net.conns[j].closePending
        /\ net' = emitClose(net, j, end)
        /\ NetEvent("closed", [joiner |-> j, end |-> end])

NetErrorEvent ==
    \E j \in Joiners, end \in Ends :
        /\ net.conns[j].phase \in { "connecting", "open" }
        /\ net' = emitError(net, j, end)
        /\ NetInput("error", [joiner |-> j, end |-> end])

NetDisconnect ==
    \E p \in Peers :
        /\ net' = disconnect(net, p)
        /\ NetInput("disconnect", p)

NetNext ==
    \/ NetJoinRoom
    \/ NetConnection
    \/ NetChannelOpen
    \/ NetOpenEvent
    \/ NetBroadcast
    \/ NetDataEvent
    \/ NetClose
    \/ NetCloseEvent
    \/ NetErrorEvent
    \/ NetDisconnect

SpecNet == NetInit /\ [][NetNext]_vars

\* --------------------------------------- specification of the ObjectManager
\* The ObjectManager of an application, with balloons in its scene, called
\* as the application and its animation loop call it: update on every
\* animation frame, grabObject and moveGrabbedObject, removeObject and
\* clearAll; and the delayed calls and removal animations these leave
\* behind.  A run has at most MaxSceneCalls calls.  The tweens of gsap
\* (the settling of a new balloon, the scale of a grabbed one, the squish of
\* a poked one) run outside update: the balloons start settled, at their
\* target positions, and one of them with its squish under way.
MaxSceneCalls == 3

\* deltaTime of update, in milliseconds: a frame at 50 Hz and a late frame.
SceneDts == { 20, 100 }

\* elapsedTime of update, in units of 5 pi / 2 seconds.
SceneElapsed == 0 .. 3

\* A settled balloon: the object createFromStroke makes, with the random
\* rotationSpeed, bobOffset and bobSpeed it drew.
Balloon(id, at, bobOffset, bobSpeed, squishAmount) ==
    [id |-> id, position |-> at, basePosition |-> at, targetPosition |-> at,
     isGrabbed |-> FALSE,
     rotation |-> [x |-> 0, y |-> 0, z |-> 0],
     rotationSpeed |-> [x |-> 1500, y |-> -1000, z |-> 500],
     bobOffset |-> bobOffset, bobSpeed |-> bobSpeed,
     scale |-> 1000, meshScale |-> [x |-> 1000, y |-> 1000, z |-> 1000],
     squishAmount |-> squishAmount]

\* Two balloons 100 pixels (one world unit) apart; two 145 pixels apart, so
\* that the bobbing takes the second in and out of COLLISION_RADIUS of the
\* first; and the first two with a third far from both.
Scenes ==
    { << Balloon(0, Px(0, 0), 0, 5, 0), Balloon(1, Px(100, 0), 1, 3, 500) >>,
      << Balloon(0, Px(0, 0), 0, 5, 0), Balloon(1, Px(0, 145), 1, 5, 0) >>,
      << Balloon(0, Px(0, 0), 0, 5, 0), Balloon(1, Px(100, 0), 1, 3, 500),
         Balloon(2, Px(500, 400), 2, 7, 0) >> }

\* Where the pinch drags a grabbed balloon: onto the second balloon of the
\* scenes, and away from all.
DragTargets == { Px(100, 0), Px(-300, -300) }

SceneInit ==
    /\ \E scene \in Scenes :
           app = [AirCanvasNew EXCEPT
                     !.objectManager =
                         [ObjectManagerNew EXCEPT
                             !.objects = scene,
                             !.idCounter = Len(scene),
                             !.meshes = { scene[i].id : i \in DOMAIN scene }]]
    /\ now = 0
    /\ lostStroke = NULL
    /\ dc = DrawingCanvasNew
    /\ rawPoints = {}
    /\ gd = GestureDetectorNew
    /\ net = NetNew
    /\ NothingCalled

SceneCalled(op, in) ==
    /\ Input(op, in, NULL, MaxSceneCalls)
    /\ UNCHANGED << now, lostStroke, dc, rawPoints, gd, net >>

SceneUpdate ==
    \E deltaTime \in SceneDts, elapsed \in SceneElapsed :
        /\ app' = [app EXCEPT !.objectManager = update(@, deltaTime, elapsed)]
        /\ SceneCalled("update", [deltaTime |-> deltaTime, elapsedTime |-> elapsed])

SceneGrab ==
    \E i \in DOMAIN app.objectManager.objects :
        LET ref == Ref(app.objectManager.objects[i])
        IN  /\ app' = [app EXCEPT !.objectManager = grabObject(@, ref)]
            /\ SceneCalled("grabObject", ref)

SceneDrag ==
    \E i \in DOMAIN app.objectManager.objects, pos \in DragTargets :
        LET ref == Ref(app.objectManager.objects[i])
        IN  /\ app.objectManager.objects[i].isGrabbed
            /\ app' = [app EXCEPT !.objectManager = moveGrabbedObject(@, ref, pos)]
            /\ SceneCalled("moveGrabbedObject", [obj |-> ref, screen |-> pos])

\* removeObject of any object made so far, in the array or already out of it.
SceneRemove ==
    \E id \in 0 .. app.objectManager.idCounter - 1 :
        /\ app' = [app EXCEPT !.objectManager = removeObject(@, [id |-> id])]
        /\ SceneCalled("removeObject", [id |-> id])

SceneClearAll ==
    /\ app' = [app EXCEPT !.objectManager = ObjectManager_clearAll(@)]
    /\ SceneCalled("clearAll", NULL)

SceneNext ==
    \/ SceneUpdate
    \/ SceneGrab
    \/ SceneDrag
    \/ SceneRemove
    \/ SceneClearAll
    \/ ClearAllDelayedCall
    \/ RemoveObjectDone
    \/ ClearAllResolved

SpecScene == SceneInit /\ [][SceneNext]_vars


\* ------------------------------------------ specification of the placement
\* Balloons as createFromStroke and moveGrabbedObject have placed them,
\* findBalancedPosition called for any of them, as createFromStroke calls it
\* for a new balloon and releaseObject for the others, and the frames of
\* update that follow, `now` being the time the frames have taken.  A run
\* has at most MaxPlaceCalls calls.
MaxPlaceCalls == 3

\* The position dx, dy pixels from the centre of the screen.
Off(dx, dy) == PtAdd(ScreenCentre, Px(dx, dy))

\* Two balloons at the same place with the same bobbing and with different
\* bobbing; two one world unit apart and two 2 units apart; two near the
\* right bound; one outside the bounds; and three near each other.
Placements ==
    { << Balloon(0, Off(0, 0), 0, 5, 0), Balloon(1, Off(0, 0), 0, 5, 0) >>,
      << Balloon(0, Off(0, 0), 0, 5, 0), Balloon(1, Off(0, 0), 1, 3, 0) >>,
      << Balloon(0, Off(0, 0), 0, 5, 0), Balloon(1, Off(100, 0), 1, 3, 0) >>,
      << Balloon(0, Off(0, 0), 0, 5, 0), Balloon(1, Off(200, 0), 1, 3, 0) >>,
      << Balloon(0, Off(300, 0), 0, 5, 0), Balloon(1, Off(390, 0), 1, 3, 0) >>,
      << Balloon(0, Px(0, 0), 0, 5, 0), Balloon(1, Off(0, 0), 1, 3, 0) >>,
      << Balloon(0, Off(0, 0), 0, 5, 0), Balloon(1, Off(100, 0), 1, 3, 0),
         Balloon(2, Off(60, 80), 2, 7, 0) >> }

PlaceInit ==
    /\ \E scene \in Placements :
           app = [AirCanvasNew EXCEPT
                     !.objectManager =
                         [ObjectManagerNew EXCEPT
                             !.objects = scene,
                             !.idCounter = Len(scene),
                             !.meshes = { scene[i].id : i \in DOMAIN scene }]]
    /\ now = 0
    /\ lostStroke = NULL
    /\ dc = DrawingCanvasNew
    /\ rawPoints = {}
    /\ gd = GestureDetectorNew
    /\ net = NetNew
    /\ NothingCalled

PlaceCalled(op, in) ==
    /\ Input(op, in, NULL, MaxPlaceCalls)
    /\ UNCHANGED << lostStroke, dc, rawPoints, gd, net >>

PlaceSettle ==
    \E i \in DOMAIN app.objectManager.objects :
        LET ref == Ref(app.objectManager.objects[i])
        IN  /\ app' = [app EXCEPT !.objectManager = findBalancedPosition(@, ref)]
            /\ now' = now
            /\ PlaceCalled("findBalancedPosition", ref)

PlaceUpdate ==
    \E deltaTime \in SceneDts, elapsed \in SceneElapsed :
        /\ app' = [app EXCEPT !.objectManager = update(@, deltaTime, elapsed)]
        /\ now' = now + deltaTime
        /\ PlaceCalled("update", [deltaTime |-> deltaTime, elapsedTime |-> elapsed])

PlaceNext ==
    \/ PlaceSettle
    \/ PlaceUpdate

SpecPlace == PlaceInit /\ [][PlaceNext]_vars


\* -------------------------------------------- specification of the release
\* The balloons of Placements grabbed, dragged and released, and the frames
\* of update in between.  A run has at most MaxSceneCalls calls.
SceneRelease ==
    \E i \in DOMAIN app.objectManager.objects :
        LET ref == Ref(app.objectManager.objects[i])
        IN  /\ app.objectManager.objects[i].isGrabbed
            /\ app' = [app EXCEPT !.objectManager = releaseObject(@, ref)]
            /\ SceneCalled("releaseObject", ref)

ReleaseNext ==
    \/ SceneUpdate
    \/ SceneGrab
    \/ SceneDrag
    \/ SceneRelease

SpecRelease == PlaceInit /\ [][ReleaseNext]_vars


\* ================================================== claims: DrawingCanvas

\* Every stroke the canvas holds or has returned.
KnownStrokes ==
    { dc.completedStrokes[i] : i \in DOMAIN dc.completedStrokes }
        \cup (IF dc.currentStroke = NULL THEN {} ELSE { dc.currentStroke })
        \cup (IF lastOut = NULL THEN {} ELSE { lastOut })

\* A step that ran the jitter filter on the raw point lastIn'.
FilterStep ==
    \/ lastOp' = "updateLivePosition"
    \/ lastOp' = "addPoint" /\ dc.currentStroke # NULL

\* C3: closeStroke returns a stroke exactly when there is an in-progress
\* stroke with at least 3 points whose arc length is not below
\* GESTURE.MIN_STROKE_LENGTH; the stroke returned is the in-progress stroke with
\* closed = true and the same points; in every other case it returns null
\* and retains nothing; either way no stroke is in progress afterwards.
C3_CloseStroke ==
    [][ lastOp' = "closeStroke" =>
          LET cs == dc.currentStroke
              ok == /\ cs # NULL
                    /\ Len(cs.points) >= 3
                    /\ PathLength(cs.points) >= GESTURE.MIN_STROKE_LENGTH * DistUnit
          IN  /\ (lastOut' # NULL) <=> ok
              /\ ok => /\ lastOut'.closed
                       /\ lastOut'.points = cs.points
                       /\ lastOut' = [cs EXCEPT !.closed = TRUE]
              /\ ~ok => dc'.completedStrokes = dc.completedStrokes
              /\ dc'.currentStroke = NULL ]_vars

\* closeStroke has returned a stroke.
C3_Witness ==
    /\ lastOp = "closeStroke"
    /\ lastOut # NULL
    /\ Len(lastOut.points) >= 3

\* C4: any two consecutive points of any stroke's polyline are at least
\* STROKE.MIN_POINT_DISTANCE apart.
C4_PointSpacing ==
    \A s \in KnownStrokes :
        \A i \in 1 .. Len(s.points) - 1 :
            distance(s.points[i], s.points[i + 1]) >= STROKE.MIN_POINT_DISTANCE * DistUnit

\* An in-progress stroke of three points or more, the last smoothed point
\* having been held back by the spacing gate.
C4_Witness ==
    /\ lastOp = "addPoint"
    /\ dc.currentStroke # NULL
    /\ Len(dc.currentStroke.points) >= 3
    /\ dc.livePosition # Last(dc.currentStroke.points)

\* C5: a raw point closer than JITTER_THRESHOLD to the last accepted raw
\* point leaves the last accepted point unchanged and the filter's output
\* (the entry pushed to the buffer) is that point again.
C5_JitterIdempotent ==
    [][ ( /\ FilterStep
          /\ dc.filteredPosition # NULL
          /\ distance(lastIn', dc.filteredPosition) < JITTER_THRESHOLD * DistUnit )
        => /\ dc'.filteredPosition = dc.filteredPosition
           /\ Last(dc'.recentPoints) = dc.filteredPosition ]_vars

\* Two consecutive outputs are the same accepted point although the raw
\* point last fed is another one, below the threshold from it.
C5_Witness ==
    /\ lastOp \in { "addPoint", "updateLivePosition" }
    /\ Len(dc.recentPoints) >= 2
    /\ dc.recentPoints[Len(dc.recentPoints) - 1] = dc.filteredPosition
    /\ Last(dc.recentPoints) = dc.filteredPosition
    /\ lastIn # dc.filteredPosition
    /\ distance(lastIn, dc.filteredPosition) < JITTER_THRESHOLD * DistUnit

\* C6 as claimed: a raw point is accepted only if its distance to the last
\* accepted raw point exceeds JITTER_THRESHOLD; at a distance of exactly the
\* threshold the previous accepted point is reused.
C6_Claimed ==
    [][ ( /\ FilterStep
          /\ dc.filteredPosition # NULL
          /\ distance(lastIn', dc.filteredPosition) <= JITTER_THRESHOLD * DistUnit )
        => /\ dc'.filteredPosition = dc.filteredPosition
           /\ Last(dc'.recentPoints) = dc.filteredPosition ]_vars

\* C6 as amended: a raw point is accepted exactly when its distance to the
\* last accepted raw point is at least JITTER_THRESHOLD (a point exactly at
\* the threshold is accepted); below it the previous accepted point is
\* reused.
C6_AcceptAtThreshold ==
    [][ ( FilterStep /\ dc.filteredPosition # NULL )
        => IF distance(lastIn', dc.filteredPosition) >= JITTER_THRESHOLD * DistUnit
           THEN /\ dc'.filteredPosition = lastIn'
                /\ Last(dc'.recentPoints) = lastIn'
           ELSE /\ dc'.filteredPosition = dc.filteredPosition
                /\ Last(dc'.recentPoints) = dc.filteredPosition ]_vars

\* The raw point last fed was accepted at exactly the threshold from the
\* point accepted before it.
C6_Witness ==
    /\ lastOp \in { "addPoint", "updateLivePosition" }
    /\ Len(dc.recentPoints) >= 2
    /\ Last(dc.recentPoints) = lastIn
    /\ dc.filteredPosition = lastIn
    /\ distance(dc.recentPoints[Len(dc.recentPoints) - 1], lastIn)
           = JITTER_THRESHOLD * DistUnit

\* C7: after addPoint or updateLivePosition the buffer holds at most
\* SMOOTH_WINDOW entries, the former entries followed by the filter's output
\* less the oldest when that makes more than SMOOTH_WINDOW, and livePosition
\* is the mean of the buffer, whether or not the point reached the polyline.
C7_SmoothingWindow ==
    [][ FilterStep =>
          LET appended == dc.recentPoints \o << dc'.filteredPosition >>
              n        == Len(dc'.recentPoints)
          IN  /\ n <= SMOOTH_WINDOW
              /\ n = IF Len(appended) > SMOOTH_WINDOW THEN SMOOTH_WINDOW
                     ELSE Len(appended)
              /\ dc'.recentPoints = SubSeq(appended, Len(appended) - n + 1, Len(appended))
              /\ dc'.livePosition.x * n * PtSum(dc'.recentPoints).d
                     = PtSum(dc'.recentPoints).x * dc'.livePosition.d
              /\ dc'.livePosition.y * n * PtSum(dc'.recentPoints).d
                     = PtSum(dc'.recentPoints).y * dc'.livePosition.d ]_vars

\* addPoint on a full buffer whose oldest entry, the stroke's first point,
\* has been evicted, the smoothed point being held back by the spacing gate.
C7_Witness ==
    /\ lastOp = "addPoint"
    /\ dc.currentStroke # NULL
    /\ Len(dc.recentPoints) = SMOOTH_WINDOW
    /\ dc.recentPoints[1] # dc.currentStroke.points[1]
    /\ dc.livePosition # Last(dc.currentStroke.points)

\* ================================================ claims: GestureDetector

\* The finger posture of a frame, read from the landmarks.
Extended(lm, tipIdx, pipIdx) == lm[tipIdx].y < lm[pipIdx].y

ThumbIndexDistance(lm) == distance(lm[LANDMARKS.THUMB_TIP], lm[LANDMARKS.INDEX_TIP])

IndexUp(lm)  == Extended(lm, LANDMARKS.INDEX_TIP, LANDMARKS.INDEX_PIP)
MiddleUp(lm) == Extended(lm, LANDMARKS.MIDDLE_TIP, LANDMARKS.MIDDLE_PIP)
RingUp(lm)   == Extended(lm, LANDMARKS.RING_TIP, LANDMARKS.RING_PIP)
PinkyUp(lm)  == Extended(lm, LANDMARKS.PINKY_TIP, LANDMARKS.PINKY_PIP)

\* C9 as the spec states it: detect(null) returns the gesture none with
\* velocity (0, 0) and resets the tracking of the held gesture, so that the
\* duration the next frame with a hand reports is measured from no earlier
\* than the null frame.
C9_Claimed ==
    [][ /\ lastOp' = "detectNull" =>
              /\ lastOut'.current = "none"
              /\ lastOut'.velocity = Zero2
        /\ (lastOp = "detectNull" /\ lastOp' = "detect") =>
              lastOut'.duration <= now' - now ]_vars

\* C10: the classification of a frame is the first match in the order
\* pinch, draw, palm, fist, none; a frame whose thumb-index distance is below
\* the configured pinch threshold is a pinch whatever its fingers do.
C10_FirstMatch ==
    lastOp = "detect" =>
        LET lm   == lastIn.landmarks
            kind == lastOut.current
        IN  /\ ThumbIndexDistance(lm) < GESTURE.PINCH_THRESHOLD * DistUnit
                   => kind = "pinch"
            /\ kind = "pinch" <=> ThumbIndexDistance(lm) < PINCH_APPLIED * DistUnit
            /\ kind = "draw" <=>
                   /\ ThumbIndexDistance(lm) >= PINCH_APPLIED * DistUnit
                   /\ IndexUp(lm) /\ ~MiddleUp(lm) /\ ~RingUp(lm) /\ ~PinkyUp(lm)
            /\ kind = "palm" <=>
                   /\ ThumbIndexDistance(lm) >= PINCH_APPLIED * DistUnit
                   /\ IndexUp(lm) /\ MiddleUp(lm) /\ RingUp(lm) /\ PinkyUp(lm)
            /\ kind = "fist" <=>
                   /\ ThumbIndexDistance(lm) >= PINCH_APPLIED * DistUnit
                   /\ ~IndexUp(lm) /\ ~MiddleUp(lm) /\ ~RingUp(lm) /\ ~PinkyUp(lm)
            /\ kind \in { "pinch", "draw", "palm", "fist", "none" }

\* A pointing hand (index extended, the others curled) whose thumb is nearer
\* the index tip than the configured threshold was classified as a pinch.
C10_Witness ==
    /\ lastOp = "detect"
    /\ ThumbIndexDistance(lastIn.landmarks) < GESTURE.PINCH_THRESHOLD * DistUnit
    /\ IndexUp(lastIn.landmarks) /\ ~MiddleUp(lastIn.landmarks)
    /\ ~RingUp(lastIn.landmarks) /\ ~PinkyUp(lastIn.landmarks)
    /\ lastOut.current = "pinch"

\* ====================================================== claims: AirCanvas

IsPrefix(s, t) == Len(s) <= Len(t) /\ SubSeq(t, 1, Len(s)) = s

\* A state between two runs of drawing: a stroke is in progress and the
\* application is not drawing.
Paused == ~app.isDrawing /\ app.drawingCanvas.currentStroke # NULL

\* C1 as the spec states it: after a pause (a pinch or a lost hand while
\* drawing), the next frame that draws resumes the same stroke, which keeps
\* the points it had, in their order.
C1_Claimed ==
    [][ (Paused /\ lastOp' = "handFrame" /\ lastOut'.current = "draw"
                /\ app'.isDrawing)
            => /\ app'.drawingCanvas.currentStroke # NULL
               /\ IsPrefix(app.drawingCanvas.currentStroke.points,
                           app'.drawingCanvas.currentStroke.points) ]_vars

\* C2 as the spec states it: whenever the application is drawing, the
\* DrawingCanvas holds a stroke in progress, so that no draw frame is dropped
\* after a rejected close, a discard or a clear-all.
C2_Claimed == app.isDrawing => app.drawingCanvas.currentStroke # NULL

\* C8: a frame without a hand leaves the stroke in progress, and everything
\* else but the two flags it clears, as it was; the stroke can then still be
\* closed by holding the palm.
C8_HandLostKeepsStroke ==
    [][ lastOp' = "handLost" =>
            /\ app'.drawingCanvas = app.drawingCanvas
            /\ app' = [app EXCEPT !.isDrawing = FALSE, !.handDetected = FALSE] ]_vars

\* The stroke that was in progress when the hand was lost has been closed by
\* the palm held after that, unchanged, and awaits its balloon.
C8_Witness ==
    /\ lastOp = "handFrame"
    /\ lastOut.current = "palm"
    /\ lostStroke # NULL
    /\ app.closing # << >>
    /\ Last(app.closing).points = lostStroke.points
    /\ Last(app.closing).closed
    /\ app.drawingCanvas.currentStroke = NULL

\* C11 as the spec states it: the classifier applies the configured
\* threshold, so a frame is a pinch exactly when its thumb tip is nearer its
\* index tip than GESTURE.PINCH_THRESHOLD.
C11_Claimed ==
    lastOp = "detect" =>
        (lastOut.current = "pinch"
            <=> ThumbIndexDistance(lastIn.landmarks)
                    < GESTURE.PINCH_THRESHOLD * DistUnit)

\* C12: on every detect of a frame with a hand, if the classified kind
\* differs from the stored one the returned previous is the former current
\* and the duration is 0; otherwise previous is as stored and the duration is
\* the time since gestureStartTime, which only a change of kind sets, to the
\* time of that change (before any change it is the origin of the clock).
C12_PreviousAndDuration ==
    [][ /\ lastOp' = "detect" =>
              IF lastOut'.current # gd.currentGesture
              THEN /\ lastOut'.previous = gd.currentGesture
                   /\ lastOut'.duration = 0
              ELSE /\ lastOut'.previous = gd.previousGesture
                   /\ lastOut'.duration = now' - gd.gestureStartTime
        /\ gd'.gestureStartTime # gd.gestureStartTime =>
              /\ lastOp' = "detect"
              /\ lastOut'.current # gd.currentGesture
              /\ gd'.gestureStartTime = now' ]_vars

\* A kind held after two changes: the duration has grown and previous is the
\* kind before the last change.
C12_Witness ==
    /\ lastOp = "detect"
    /\ lastOut.duration > 0
    /\ lastOut.previous # "none"
    /\ lastOut.previous # lastOut.current

\* C13: a frame identical to the frame of the call before is classified as
\* that one was: current and previous are the same and the duration has
\* grown by the time between the two calls, without a reset.
C13_StableOnConstantFrames ==
    [][ (lastOp = "detect" /\ lastOp' = "detect" /\ lastIn' = lastIn) =>
            /\ lastOut'.current = lastOut.current
            /\ lastOut'.previous = lastOut.previous
            /\ lastOut'.duration = lastOut.duration + (now' - now)
            /\ gd'.currentGesture = gd.currentGesture
            /\ gd'.previousGesture = gd.previousGesture
            /\ gd'.gestureStartTime = gd.gestureStartTime ]_vars

\* The moved palm seen twice in a row: the second call, the only one so far
\* besides the first, finds the palm where it was (zero velocity) and the
\* kind held since the first.
C13_Witness ==
    /\ lastOp = "detect"
    /\ calls = 2
    /\ lastIn = Hand(Px(30, 40), 100, OpenPalm)
    /\ lastOut.current = "palm"
    /\ lastOut.velocity = Zero2
    /\ lastOut.duration > 0

\* The four fingers of a frame are level with, or below, their PIP joints.
NoneAbove(lm) ==
    /\ lm[LANDMARKS.INDEX_TIP].y >= lm[LANDMARKS.INDEX_PIP].y
    /\ lm[LANDMARKS.MIDDLE_TIP].y >= lm[LANDMARKS.MIDDLE_PIP].y
    /\ lm[LANDMARKS.RING_TIP].y >= lm[LANDMARKS.RING_PIP].y
    /\ lm[LANDMARKS.PINKY_TIP].y >= lm[LANDMARKS.PINKY_PIP].y

AllAtBoundary(lm) ==
    /\ lm[LANDMARKS.INDEX_TIP].y = lm[LANDMARKS.INDEX_PIP].y
    /\ lm[LANDMARKS.MIDDLE_TIP].y = lm[LANDMARKS.MIDDLE_PIP].y
    /\ lm[LANDMARKS.RING_TIP].y = lm[LANDMARKS.RING_PIP].y
    /\ lm[LANDMARKS.PINKY_TIP].y = lm[LANDMARKS.PINKY_PIP].y

\* C14: a tip level with its PIP joint counts as not extended, so a frame
\* that is no pinch and has no finger tip above its joint, and in particular
\* one with the four tips level with their joints, is a fist; and the kind is
\* the one a newly constructed detector returns for the same frame.
C14_BoundaryDeterministic ==
    lastOp = "detect" =>
        /\ (NoneAbove(lastIn.landmarks) /\ lastOut.current # "pinch")
               => lastOut.current = "fist"
        /\ (AllAtBoundary(lastIn.landmarks)
                /\ ThumbIndexDistance(lastIn.landmarks) >= PINCH_APPLIED * DistUnit)
               => lastOut.current = "fist"
        /\ lastOut.current = detect(GestureDetectorNew, lastIn, now).state.current

\* A detector that last saw an open palm classifies the frame with the four
\* tips level with their joints as a fist.
C14_Witness ==
    /\ lastOp = "detect"
    /\ AllAtBoundary(lastIn.landmarks)
    /\ lastOut.previous = "palm"
    /\ lastOut.current = "fist"

\* ---------------------------------------------------------------------------
\* Claims about the application's gesture handling.
\* ---------------------------------------------------------------------------

\* Times between two frames tried for a swipe: one camera frame at 60 Hz,
\* at which a hand moving between the frames of AppFrames is faster than
\* GESTURE.SWIPE_VELOCITY, and the usual 250 ms.
SwipeDts == { 16, 250 }

\* C15 as the spec states it: with an object in the scene and the hand
\* tracked, some hand frame is classified swipe, runs the swipe handler and
\* removes the object under the fingertip.
C15_Claimed ==
    (app.handDetected /\ app.objectManager.objects # << >>) =>
        \E landmarks \in AppFrames, dt \in SwipeDts :
            LET a == onHandResults(app, landmarks, now + dt)
            IN  /\ a.lastGestureState.current = "swipe"
                /\ Len(a.objectManager.objects) < Len(app.objectManager.objects)

\* C16 as the spec states it: a palm frame closes the stroke only at the end
\* of an unbroken run of palm frames lasting GESTURE.PALM_HOLD_TIME, and a
\* frame without a hand breaks the run like any other interruption; so the
\* first palm frame after a frame of another kind, or after a frame without
\* a hand, closes nothing.
C16_Claimed ==
    [][ ( /\ lastOp' = "handFrame"
          /\ lastOut'.current = "palm"
          /\ \/ lastOp = "handLost"
             \/ lastOp = "handFrame" /\ lastOut.current # "palm" )
        => ~ ( /\ app.drawingCanvas.currentStroke # NULL
               /\ app'.drawingCanvas.currentStroke = NULL ) ]_vars

\* ---------------------------------------------------------------------------
\* Claims about the ObjectManager.
\* ---------------------------------------------------------------------------

\* The active objects before and after a step, and where update finds the
\* i-th object when it tests it for collisions: drifted and bobbed.
Objects == app.objectManager.objects
ObjectsNext == app'.objectManager.objects
AtTest(i) ==
    bobAndDrift(Objects[i], lastIn'.deltaTime, lastIn'.elapsedTime).position

\* The square of the distance of two positions, in hundredths of a pixel,
\* or the square of COLLISION_RADIUS when they are that far apart or more.
DistSquared(p, q) ==
    LET dx == Hx(p) - Hx(q)
        dy == Hy(p) - Hy(q)
        R  == WorldLength(SCENE.COLLISION_RADIUS)
    IN  IF Abs(dx) >= R \/ Abs(dy) >= R \/ dx * dx + dy * dy >= R * R
        THEN R * R ELSE dx * dx + dy * dy

InRadius(p, q) ==
    DistSquared(p, q) < WorldLength(SCENE.COLLISION_RADIUS) * WorldLength(SCENE.COLLISION_RADIUS)

\* Every object other than the i-th and the g-th is too far from the i-th to
\* come within COLLISION_RADIUS of it during one update.
OthersFar(i, g) ==
    \A t \in DOMAIN Objects \ { i, g } :
        \/ Abs(Hx(Objects[t].position) - Hx(Objects[i].position))
               >= 2 * WorldLength(SCENE.COLLISION_RADIUS)
        \/ Abs(Hy(Objects[t].position) - Hy(Objects[i].position))
               >= 2 * WorldLength(SCENE.COLLISION_RADIUS)

\* The i-th object has been moved, and its target with it, to the side of
\* position `from` away from the g-th object.
PushedAway(i, g, from) ==
    LET ax == Hx(from) - Hx(Objects[g].position)
        ay == Hy(from) - Hy(Objects[g].position)
    IN  /\ ax * (Hx(ObjectsNext[i].position) - Hx(from))
             + ay * (Hy(ObjectsNext[i].position) - Hy(from)) > 0
        /\ ax * (Hx(ObjectsNext[i].targetPosition) - Hx(Objects[i].targetPosition))
             + ay * (Hy(ObjectsNext[i].targetPosition) - Hy(Objects[i].targetPosition)) > 0

\* The objects update leaves alone and the pairs of a free object i and a
\* grabbed object g that alone can push it.
GrabbedUntouched ==
    /\ Len(ObjectsNext) = Len(Objects)
    /\ \A i \in DOMAIN Objects : Objects[i].isGrabbed => ObjectsNext[i] = Objects[i]

FreeByGrabbed ==
    { pair \in (DOMAIN Objects) \X (DOMAIN Objects) :
          /\ ~Objects[pair[1]].isGrabbed
          /\ Objects[pair[2]].isGrabbed
          /\ OthersFar(pair[1], pair[2]) }

ActiveIds == { Objects[i].id : i \in DOMAIN Objects }
ActiveIdsNext == { ObjectsNext[i].id : i \in DOMAIN ObjectsNext }

\* The screen positions a hit test is made at: where the balloons of the
\* scenes stand and where they are dragged to.
HitPoints ==
    DragTargets \cup { Px(0, 0), Px(0, 145), Px(500, 400) }

\* C18: removeObject of an active object takes it out of the array at once,
\* while its mesh is still in the scene for the removal animation, and leaves
\* the other objects as they were; removeObject of an object that is not
\* active changes nothing; and an object whose removal runs is not active
\* again, so update moves and pushes only the others and no hit test returns
\* it.
C18_RemovedAtOnce ==
    [][ /\ lastOp' = "removeObject" =>
              IF indexOf(app.objectManager, lastIn') = 0
              THEN app' = app
              ELSE /\ ObjectsNext = SelectSeq(Objects, LAMBDA obj : obj.id # lastIn'.id)
                   /\ lastIn'.id \notin ActiveIdsNext
                   /\ lastIn'.id \in app'.objectManager.removing
                   /\ lastIn'.id \in app'.objectManager.meshes
        /\ app'.objectManager.removing \cap ActiveIdsNext = {}
        /\ lastOp' = "update" => ActiveIdsNext = ActiveIds
        /\ \A pos \in HitPoints :
              LET hit == getObjectAtPosition(app'.objectManager, pos)
              IN  hit # NULL => hit.id \notin app'.objectManager.removing ]_vars

\* update has run on the balloons left while the mesh of a removed balloon
\* was still in the scene.
C18_Witness ==
    /\ lastOp = "update"
    /\ app.objectManager.removing # {}
    /\ app.objectManager.removing \subseteq app.objectManager.meshes
    /\ Objects # << >>

\* ---------------------------------------------------------------------------
\* Claims about the objects the application holds.
\* ---------------------------------------------------------------------------

\* C19 as the spec states it: the object the application holds as grabbed
\* is always an active object of the ObjectManager.
C19_Claimed ==
    \/ app.grabbedObject = NULL
    \/ indexOf(app.objectManager, app.grabbedObject) # 0

\* C20 as the spec states it: when clearAll has completed, the array is empty
\* and no mesh of an object that was active is left in the scene: the only
\* meshes still there belong to objects removed apart from it, whose removal
\* animation is running.
C20_Claimed ==
    [][ lastOp' = "clearAllResolved" =>
            /\ ObjectsNext = << >>
            /\ app'.objectManager.meshes \subseteq app'.objectManager.removing ]_vars

\* ---------------------------------------------------------------------------
\* Claims about the placement of the objects.
\* ---------------------------------------------------------------------------

\* A position within the bounds of findBalancedPosition: at most 4 world
\* units to the left or right of the origin and at most 3 above or below it.
InBounds(p) ==
    /\ Abs(Hx(p) - Hx(ScreenCentre)) <= WorldLength(1000 * PLACE_BOUNDS.x)
    /\ Abs(Hy(p) - Hy(ScreenCentre)) <= WorldLength(1000 * PLACE_BOUNDS.y)

StrictlyInBounds(p) ==
    /\ Abs(Hx(p) - Hx(ScreenCentre)) < WorldLength(1000 * PLACE_BOUNDS.x)
    /\ Abs(Hy(p) - Hy(ScreenCentre)) < WorldLength(1000 * PLACE_BOUNDS.y)

\* The objects other than the i-th that stand within COLLISION_RADIUS of
\* where the i-th was placed, and not at that very place.
NearPlaced(i) ==
    { g \in DOMAIN Objects \ { i } :
          /\ InRadius(Objects[i].basePosition, Objects[g].basePosition)
          /\ Objects[i].basePosition # Objects[g].basePosition }

\* The target of the i-th object is now u from where it was placed, u being
\* a push away from the g-th object along the line through both, of half of
\* (radius - dist) / radius world units, to within the rounding of the
\* hundredths of a pixel.
PlacedAwayFrom(i, g) ==
    LET ux   == Hx(ObjectsNext[i].targetPosition) - Hx(Objects[i].basePosition)
        uy   == Hy(ObjectsNext[i].targetPosition) - Hy(Objects[i].basePosition)
        dx   == Hx(Objects[i].basePosition) - Hx(Objects[g].basePosition)
        dy   == Hy(Objects[i].basePosition) - Hy(Objects[g].basePosition)
        R    == WorldLength(SCENE.COLLISION_RADIUS)
        dist == ISqrt(dx * dx + dy * dy)
        size == ((R - dist) * WorldLength(500)) \div R
    IN  /\ ux * dx + uy * dy > 0
        /\ Abs(ux * dy - uy * dx) <= Abs(dx) + Abs(dy)
        /\ ISqrt(ux * ux + uy * uy) >= size - 2
        /\ ISqrt(ux * ux + uy * uy) <= size + 2

C23_Claimed ==
    [][ (lastOp' = "remoteEvent" /\ lastIn' \in MalformedPayloads) =>
            (app' = app /\ lastOut' = NULL) ]_vars

RemoteBalloon == [type |-> "balloon_created", strokeData |-> PeerStroke]

\* C24: handling a received balloon_created adds exactly one object, built
\* from the received stroke, at the end of the active objects, and leaves
\* the stroke in progress, the completed strokes, the smoothing buffer and
\* isDrawing as they were.
C24_RemoteBalloon ==
    [][ (lastOp' = "remoteEvent" /\ lastIn' = RemoteBalloon) =>
            /\ Len(ObjectsNext) = Len(Objects) + 1
            /\ SubSeq(ObjectsNext, 1, Len(Objects)) = Objects
            /\ ObjectsNext[Len(ObjectsNext)].originalStroke = PeerStroke
            /\ ObjectsNext[Len(ObjectsNext)].color = PeerStroke.color
            /\ ObjectsNext[Len(ObjectsNext)].position = getStrokeCenter(PeerStroke.points)
            /\ \A i \in DOMAIN Objects : ObjectsNext[Len(ObjectsNext)].id # Objects[i].id
            /\ app'.drawingCanvas = app.drawingCanvas
            /\ app'.isDrawing = app.isDrawing
            /\ app'.closing = app.closing ]_vars

\* A balloon of the peer has joined the balloons while a completed stroke
\* waits on the canvas.
C24_Witness ==
    /\ lastOp = "remoteEvent"
    /\ lastIn = RemoteBalloon
    /\ Len(Objects) > 1
    /\ Objects[Len(Objects)].originalStroke = PeerStroke
    /\ app.drawingCanvas.completedStrokes # << >>

\* C30 as the spec states it, for the step that follows a click on the
\* clear-all button: the clear_all event has just been broadcast, and the
\* balloons whose creation has not returned were created before the click,
\* so none of them is broadcast now.
C30_Claimed ==
    [][ (lastOp = "clearAllClick" /\ lastOp' = "inflationDone") =>
            app'.multiplayer.sent #
                Append(app.multiplayer.sent,
                       [type |-> "balloon_created",
                        strokeData |-> inflationEnding(app).stroke]) ]_vars

\* ---------------------------------------------------------------------------
\* Claims about the tracking loop.
\* ---------------------------------------------------------------------------

\* C25: the tracking loop hands a frame to hands.send only when the frame
\* sent before has been finished, so that at most one frame is pending at
\* any time, and the results reach the gesture handler in the order of their
\* frames: never those of an older frame after those of a newer one.
C25_OneFrameInFlight ==
    /\ [](Len(app.handTracker.inFlight) <= 1)
    /\ [](app.handTracker.loop = "scheduled" => app.handTracker.inFlight = << >>)
    /\ [][ lastOp' = "onResults" =>
               /\ app.handTracker.inFlight = << lastIn'.frame >>
               /\ lastIn'.frame >= app.handTracker.reported
               /\ app'.handTracker.reported = lastIn'.frame ]_vars

\* The results of a later frame have followed those of an earlier one.
C25_Witness ==
    /\ lastOp = "onResults"
    /\ calls = MaxResults
    /\ lastIn.frame = MaxVideoFrames
    /\ app.handDetected
    /\ app.handTracker.loop = "scheduled"

\* ---------------------------------------------------------------------------
\* Claims about the making of the balloon mesh.
\* ---------------------------------------------------------------------------

\* C26: for a stroke of 0, 1 or 2 points the creation of the shape does not
\* fail and gives the fallback: the full circle of radius 1 about the origin.
C26_FallbackCircle ==
    (lastOp = "createBalloonMesh" /\ Len(lastIn) < 3) =>
        lastOut.shape = [kind |-> "absarc", center |-> Px(0, 0), radius |-> 1]

C26_Witness ==
    /\ lastOp = "createBalloonMesh"
    /\ Len(lastIn) = 2
    /\ lastOut.shape.kind = "absarc"
    /\ calls = MaxInflatorCalls

\* The index in the stroke of a point of it (the points of a stroke here are
\* distinct).
IndexIn(points, p) == CHOOSE j \in DOMAIN points : points[j] = p

\* C27: with the cap of 20, the subsampled points are the input when it has
\* at most 20 points; when it has more they are exactly 20 points of it, at
\* strictly increasing indices, the first of them the first point of the input.
C27_Subsample ==
    lastOp = "createBalloonMesh" =>
        LET out == lastOut.simplifiedPoints
        IN  IF Len(lastIn) <= 20 THEN out = lastIn
            ELSE /\ Len(out) = 20
                 /\ \A i \in DOMAIN out : \E j \in DOMAIN lastIn : out[i] = lastIn[j]
                 /\ \A i \in 1 .. Len(out) - 1 :
                        IndexIn(lastIn, out[i]) < IndexIn(lastIn, out[i + 1])
                 /\ out[1] = lastIn[1]

\* A stroke of more than twice the cap has been subsampled; its last point
\* is not kept.
C27_Witness ==
    /\ lastOp = "createBalloonMesh"
    /\ Len(lastIn) > 40
    /\ Len(lastOut.simplifiedPoints) = 20
    /\ Last(lastOut.simplifiedPoints) # Last(lastIn)

\* Whether the square root of n is whole.
IsSquare(n) == ISqrt(n) * ISqrt(n) = n

\* C28: the inflation leaves every vertex within 0.001 of the centre of the
\* bounding box where it is, and moves every other vertex along the ray from
\* the centre through it, so that its distance from the centre grows by the
\* inflation amount, the same for all.  (Offsets and distances are doubled.)
C28_Inflated ==
    lastOp = "inflateGeometry" =>
        \A i \in DOMAIN lastIn :
            LET c2  == Center2(lastIn)
                d   == Offset2(lastIn[i], c2)
                e   == Offset2(lastOut[i], c2)
            IN  IF NormSquared(d) <= 4 * INFLATE_EPSILON * INFLATE_EPSILON
                THEN lastOut[i] = lastIn[i]
                ELSE /\ d.x * e.y = d.y * e.x
                     /\ d.y * e.z = d.z * e.y
                     /\ d.x * e.z = d.z * e.x
                     /\ d.x * e.x + d.y * e.y + d.z * e.z > 0
                     /\ IsSquare(NormSquared(d)) /\ IsSquare(NormSquared(e))
                     /\ ISqrt(NormSquared(e)) = ISqrt(NormSquared(d)) + 2 * inflateAmount
                     /\ inflateAmount > 0

\* A geometry with vertices at the centre, at 0.001 from it and beyond has
\* been inflated.
C28_Witness ==
    /\ lastOp = "inflateGeometry"
    /\ \E i, j, k \in DOMAIN lastIn :
          /\ NormSquared(Offset2(lastIn[i], Center2(lastIn))) = 0
          /\ NormSquared(Offset2(lastIn[j], Center2(lastIn)))
                 = 4 * INFLATE_EPSILON * INFLATE_EPSILON
          /\ lastOut[j] = lastIn[j]
          /\ lastOut[k] # lastIn[k]

\* ---------------------------------------------------------------------------
\* Claims about the grabbed object.
\* ---------------------------------------------------------------------------

\* C29 as the spec states it: after a hand frame whose gesture is draw, palm,
\* fist or none has been handled, no object is grabbed and the application
\* holds none as grabbed.
C29_Claimed ==
    [][ (lastOp' = "handFrame" /\ lastOut'.current \in { "draw", "palm", "fist", "none" }) =>
            /\ app'.grabbedObject = NULL
            /\ \A i \in DOMAIN ObjectsNext : ~ObjectsNext[i].isGrabbed ]_vars

\* ---------------------------------------------------------------------------
\* Claims about the connections between the peers.
\* ---------------------------------------------------------------------------

\* C32 as the spec states it: when joinRoom resolves (the open event of the
\* connection is emitted at the joiner's end), the joiner's connection map
\* holds the connection to the host, so that isConnected() is true, and the
\* status is reported as connected.
C32_Claimed ==
    [][ (lastOp' = "open" /\ lastIn'.end = "joiner") =>
            /\ HostId \in net'.mp[lastIn'.joiner].connections
            /\ isConnected(net', lastIn'.joiner)
            /\ net'.mp[lastIn'.joiner].status.status = "connected" ]_vars

\* C38 as the spec states it: whenever the status last reported is
\* connected, the connection map is not empty and the number of peers
\* reported is its size.
C38_Claimed ==
    \A p \in Peers :
        net.mp[p].status.status = "connected" =>
            /\ net.mp[p].connections # {}
            /\ net.mp[p].status.peers = Cardinality(net.mp[p].connections)

\* The star is formed: every joiner's joinRoom has resolved on an open
\* connection, and the host has every joiner in its map.
StarFormed ==
    /\ \A j \in Joiners :
          /\ net.conns[j].phase = "open"
          /\ net.conns[j].openPending = {}
          /\ net.conns[j].joinerHandles
    /\ net.mp[HostId].connections = Joiners

\* C39 as the spec states it, at the first hop: in the star an event a
\* participant broadcasts is under way to the host when a joiner sends it,
\* and to every joiner when the host sends it.
C39_Claimed ==
    (lastOp = "broadcast" /\ StarFormed) =>
        IF lastIn.from = HostId
        THEN \A j \in Joiners :
                 /\ net.conns[j].toJoiner # << >>
                 /\ Last(net.conns[j].toJoiner) = lastIn.event
        ELSE /\ net.conns[lastIn.from].toHost # << >>
             /\ Last(net.conns[lastIn.from].toHost) = lastIn.event

\* ================================================ claims: the drawing frames

\* C36 as the spec states it: a frame whose gesture is draw contributes
\* exactly one entry to the smoothing buffer: the buffer after the frame is
\* the buffer before it with the filter's output pushed (less the oldest
\* entry beyond SMOOTH_WINDOW), or the one-entry buffer of a stroke that
\* the frame starts.
C36_Claimed ==
    [][ (lastOp' = "handFrame" /\ app'.lastGestureState.current = "draw") =>
            \/ app'.drawingCanvas.recentPoints
                   = pushRecent(app.drawingCanvas.recentPoints,
                                app'.drawingCanvas.filteredPosition)
            \/ app'.drawingCanvas.recentPoints
                   = << app'.drawingCanvas.filteredPosition >> ]_vars

\* ================================================ claims: the crowded scene

\* C37 as the spec states it: the active set never holds more than
\* SCENE.MAX_OBJECTS objects.
C37_Claimed == Len(app.objectManager.objects) <= SCENE.MAX_OBJECTS

\* ================================================ claims: the scene and the array

\* C33 as the spec states it: the mesh of every balloon in the scene,
\* whenever it was created, belongs to an object of the array or to an
\* object whose removal animation is running.
C33_Claimed ==
    \A id \in app.objectManager.meshes :
        id \in ActiveIds \/ id \in app.objectManager.removing

\* ================================================ claims: releaseObject

\* The i-th object of the array has another within COLLISION_RADIUS of
\* where its mesh is.
Overlaps(objects, i) ==
    \E j \in DOMAIN objects :
        /\ j # i
        /\ LET dx == Hx(objects[i].position) - Hx(objects[j].position)
               dy == Hy(objects[i].position) - Hy(objects[j].position)
               R  == WorldLength(SCENE.COLLISION_RADIUS)
           IN  /\ Abs(dx) < R
               /\ Abs(dy) < R
               /\ dx * dx + dy * dy < R * R

\* C35 as the spec states it: releaseObject leaves the target of every
\* other object that has no object within COLLISION_RADIUS of it as it
\* was.
C35_Claimed ==
    [][ lastOp' = "releaseObject" =>
            \A i \in DOMAIN Objects :
                (Objects[i].id # lastIn'.id /\ ~Overlaps(Objects, i)) =>
                    ObjectsNext[i].targetPosition = Objects[i].targetPosition ]_vars

\* ================================================ claims: the inflation

\* C34 as the spec states it: when the inflation of a balloon ends and
\* createFromStroke goes on to findBalancedPosition, the balloon is
\* still in the array and is not grabbed.
C34_Claimed ==
    [][ lastOp' = "inflationDone" =>
            LET i == indexOf(app.objectManager, [id |-> inflationEnding(app).id])
            IN  /\ i # 0
                /\ ~Objects[i].isGrabbed ]_vars

\* The stroke that the scripts close, of which createBalloon makes a balloon.
ClosedStroke == Head(Replay(AirCanvasConnected, 0, ClosingScript).app.closing)

\* createBalloon awaits the createFromStroke call of a stroke.
Awaited(stroke) ==
    \E k \in DOMAIN app.inflating :
        app.inflating[k].local /\ app.inflating[k].stroke = stroke

\* The balloon of a stroke has been broadcast.
Broadcast(stroke) ==
    \E k \in DOMAIN app.multiplayer.sent :
        app.multiplayer.sent[k] = [type |-> "balloon_created", strokeData |-> stroke]

\* C31 as the spec states it: with a peer connected, the creation of a
\* balloon from a closed stroke is eventually followed by the broadcast of
\* balloon_created with that stroke, whatever hand frames arrive meanwhile.
C31_Claimed ==
    (app.multiplayer.connected /\ Awaited(ClosedStroke)) ~> Broadcast(ClosedStroke)

===========================================================================
